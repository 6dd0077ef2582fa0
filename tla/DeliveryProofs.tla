--------------------------- MODULE DeliveryProofs ---------------------------
(***************************************************************************)
(* The replies, the descriptors and the two logs, with any number of users *)
(* and balconies.                                                          *)
(***************************************************************************)
EXTENDS Delivery, FiniteSetTheorems, FunctionTheorems, SequenceTheorems,
        WellFoundedInduction, TLAPS

-----------------------------------------------------------------------------
(* The inductive invariant.                                                *)

\* A user that has not sent its request, has opened its FIFO, may be interrupted.
Unsent == {"mkfifo", "open_server", "write"}
HasOpened == {"read", "cancel_alarm", "log_reply", "exit", "left", "failed", "killed"}
Interruptible == {"log_request", "flag_request", "open_own", "read", "cancel_alarm"}
\* A balcony before and after it opens the FIFO of its user.
Early == {"log_request", "write_log_request", "serve", "open"}
Late == {"log_reply", "write_log_reply", "write", "close"}
Done(u) == upc[u] \in {"exit", "left"} /\ ret_user[u] = "RC_OK"

\* The records and flags of a user, at each of its points.
UserRecords(u) ==
    /\ armed[u] => upc[u] \in Interruptible
    /\ ret_user[u] = "RC_SRV_DOWN" => upc[u] \in {"exit", "left"}
    /\ upc[u] \in Unsent \cup {"alarm", "log_request"} =>
        ulog[u] = <<>> /\ ~logged_request[u] /\ ~logged_reply[u]
    /\ upc[u] = "flag_request" =>
        ulog[u] = <<RequestRecord>> /\ ~logged_request[u] /\ ~logged_reply[u]
    /\ upc[u] \in {"open_own", "read", "cancel_alarm", "log_reply"} =>
        ulog[u] = <<RequestRecord>> /\ logged_request[u] /\ ~logged_reply[u]
    /\ upc[u] = "exit" =>
        \/ /\ ret_user[u] = "RC_OK" /\ logged_request[u] /\ logged_reply[u]
           /\ \E c \in Codes : ulog[u] = <<RequestRecord, ReplyRecord(c)>>
        \/ /\ ret_user[u] = "RC_SRV_DOWN" /\ ~logged_request[u] /\ ~logged_reply[u]
           /\ ulog[u] = <<>>
        \/ /\ ret_user[u] = "RC_SRV_TIMEOUT" /\ ~logged_reply[u]
           /\ (ulog[u] = <<>> /\ ~logged_request[u]) \/ ulog[u] = <<RequestRecord>>
    /\ upc[u] = "left" =>
        \/ /\ ret_user[u] = "RC_OK"
           /\ \E c \in Codes : ulog[u] = <<RequestRecord, ReplyRecord(c)>>
        \/ /\ ret_user[u] \in {"RC_SRV_DOWN", "RC_SRV_TIMEOUT"}
           /\ ulog[u] = <<RequestRecord, ReplyRecord(ret_user[u])>>
        \/ /\ ret_user[u] = "RC_SRV_TIMEOUT"
           /\ ulog[u] = <<RequestRecord, RequestRecord, ReplyRecord(ret_user[u])>>
UserFiles(u) ==
    /\ upc[u] \notin {"mkfifo", "left", "killed"} => linked[u]
    /\ reading[u] # "closed" => upc[u] \in HasOpened
    /\ upc[u] \in {"cancel_alarm", "log_reply"} => request_reply[u].ret_code \in Codes
    /\ \A i \in 1 .. Len(content[u]) : content[u][i].ret_code \in Codes

\* A request has not been sent, waits for a balcony, is served by one, or is done.
Sent(u) == u \in pending \/ \E b \in Balconies : first_request[b] = u
Requests ==
    /\ \A b \in Balconies : first_request[b] = Nobody <=> bpc[b] = "idle"
    /\ \A b, c \in Balconies : first_request[b] = first_request[c] /\ bpc[b] # "idle" => b = c
    /\ \A b \in Balconies : first_request[b] \notin pending
    /\ \A u \in Users : upc[u] \in Unsent \/ ret_user[u] = "RC_SRV_DOWN" => ~Sent(u)
    /\ \A u \in Users : Sent(u) => linked[u] \/ upc[u] = "left"
    /\ \A b \in Balconies : bpc[b] \in {"open"} \cup Late => req_ret[b] \in Codes
    /\ \A b \in Balconies : bpc[b] \in {"write", "close"} => user_fifo[b] # BadFd

\* The server log, and the buffer in which its records are printed.
ServerRecords ==
    /\ \A u \in Users :
        \/ slog[u] \in {<<>>, <<RequestRecord>>}
        \/ \E c \in Codes : slog[u] = <<RequestRecord, ReplyRecord(c)>>
    /\ \A u \in Users : upc[u] \in Unsent \/ u \in pending => slog[u] = <<>>
    /\ \A b \in Balconies :
        /\ bpc[b] \in {"log_request", "write_log_request"} => slog[first_request[b]] = <<>>
        /\ bpc[b] \in {"serve", "open", "log_reply", "write_log_reply"} =>
            slog[first_request[b]] = <<RequestRecord>>
        /\ bpc[b] \in {"write", "close"} =>
            slog[first_request[b]] = <<RequestRecord, ReplyRecord(req_ret[b])>>
Buffer ==
    \A b \in Balconies :
        /\ log_mutex = b <=> bpc[b] \in {"write_log_request", "write_log_reply"}
        /\ bpc[b] = "write_log_request" =>
            log_buffer = [user |-> first_request[b], record |-> RequestRecord]
        /\ bpc[b] = "write_log_reply" =>
            log_buffer = [user |-> first_request[b], record |-> ReplyRecord(req_ret[b])]

\* Every descriptor has a balcony that will close it.
Descriptors ==
    \A n \in Numbers :
        /\ fd[n] = DummyEnd => n = Dummy
        /\ \A u \in Users : fd[n] = Opening(u) =>
            \E b \in Balconies : bpc[b] = "log_reply" /\ user_fifo[b] = n /\ first_request[b] = u
        /\ \A u \in Users : fd[n] = Opened(u) =>
            /\ upc[u] \in HasOpened
            /\ \E b \in Balconies : Using(b) /\ user_fifo[b] = n

\* Nobody writes to a user before its own balcony has opened its FIFO.
Unanswered(u) ==
    \/ upc[u] \in Unsent
    \/ u \in pending
    \/ \E b \in Balconies : first_request[b] = u /\ bpc[b] \in Early
NoReplyYet ==
    \A u \in Users : Unanswered(u) =>
        /\ ~HasWriter(u) /\ content[u] = <<>>
        /\ upc[u] \notin {"cancel_alarm", "log_reply"} /\ ~Done(u)

\* RC_USR_DOWN is for users that timed out and have gone.
GaveUp(u) == upc[u] = "left" /\ ret_user[u] = "RC_SRV_TIMEOUT"
DownGaveUp ==
    /\ \A b \in Balconies : req_ret[b] = "RC_USR_DOWN" =>
        first_request[b] \in Users /\ GaveUp(first_request[b])
    /\ \A u \in Users : slog[u] = <<RequestRecord, ReplyRecord("RC_USR_DOWN")>> => GaveUp(u)

\* Until a second shutdown mixes up the descriptors, a balcony has the FIFO of its
\* own user open, and a user has what the server recorded.
OwnFifo(b) ==
    user_fifo[b] # BadFd =>
        /\ bpc[b] = "log_reply" =>
            fd[user_fifo[b]] \in {Opening(first_request[b]), Opened(first_request[b])}
        /\ bpc[b] \in {"write_log_reply", "write", "close"} =>
            fd[user_fifo[b]] = Opened(first_request[b])
OwnReply(u) ==
    /\ \A i \in 1 .. Len(content[u]) :
        slog[u] = <<RequestRecord, ReplyRecord(content[u][i].ret_code)>>
    /\ upc[u] \in {"cancel_alarm", "log_reply"} =>
        slog[u] = <<RequestRecord, ReplyRecord(request_reply[u].ret_code)>>
    /\ Done(u) => slog[u] = ulog[u]
Owned == ~misclosed =>
    /\ \A b \in Balconies : OwnFifo(b)
    /\ \A u \in Users : OwnReply(u)

\* A user that waits for its reply has a balcony that will write it.
Answering(b) == /\ bpc[b] \in {"log_reply", "write_log_reply", "write"}
                /\ user_fifo[b] # BadFd
Awaited ==
    server = "up" /\ ~misclosed =>
        \A u \in Users :
            upc[u] = "read" /\ reading[u] = "open" =>
                \/ content[u] # <<>>
                \/ \E b \in Balconies : first_request[b] = u /\ Answering(b)

IInv ==
    /\ TypeOK
    /\ \A u \in Users : UserRecords(u) /\ UserFiles(u)
    /\ Requests
    /\ ServerRecords
    /\ Buffer
    /\ Descriptors
    /\ NoReplyYet
    /\ DownGaveUp
    /\ Owned
    /\ Awaited
    /\ FailureHasACause

-----------------------------------------------------------------------------
(* Constants, files and records.                                           *)

UserNext(u) == UserStep(u) \/ Alarm(u) \/ UserKilled(u)

\* The steps of a balcony but for the one at which the server ends.
Serves(b) ==
    \/ TakeRequest(b) \/ SyncLogRequest(b) \/ WriteLogRequest(b) \/ ServeAccounts(b)
    \/ ServeShutdown(b) \/ OpenUserFifo(b) \/ OpenUserFifoFails(b) \/ SyncLogReply(b)
    \/ WriteLogReply(b) \/ WriteReply(b) \/ CloseUserFifo(b)

\* What the assumptions say of the constants, in the form that the steps need.
LEMMA ConstantsAre ==
    /\ Cardinality(Balconies) \in Nat \ {0} /\ IsFiniteSet(Balconies)
    /\ Dummy \in Numbers /\ BadFd \notin Numbers
    /\ Nobody \notin Users /\ Nobody \notin Balconies
    /\ NoCode \notin Codes
    /\ \A r \in Results : r \in {"RC_OK", "RC_LOGIN_FAIL"}
<1>1. Cardinality(Balconies) \in Nat /\ IsFiniteSet(Balconies)
  BY BalconiesAssumption, FS_CardinalityType
<1>2. Cardinality(Balconies) # 0
  BY BalconiesAssumption, FS_EmptySet
<1>3. Dummy \in Numbers /\ BadFd \notin Numbers
  BY <1>1 DEF Dummy, Numbers, BadFd
<1>4. NoCode \notin Codes
  BY DEF NoCode, Codes
<1>5. QED
  BY <1>1, <1>2, <1>3, <1>4, NobodyAssumption, ResultsAssumption

\* A number stands for one thing: an end that is opened for a user tells which user.
LEMMA FilesDiffer ==
    /\ Free # DummyEnd
    /\ \A u : Opening(u) # Free /\ Opening(u) # DummyEnd /\ Opened(u) # Free /\ Opened(u) # DummyEnd
    /\ \A u, v : Opening(u) # Opened(v)
    /\ \A u, v : Opening(u) = Opening(v) => u = v
    /\ \A u, v : Opened(u) = Opened(v) => u = v
<1>1. \A u : /\ Opening(u).file = "user FIFO" /\ Opening(u).user = u
             /\ Opening(u).returned = FALSE
  BY DEF Opening
<1>2. \A u : /\ Opened(u).file = "user FIFO" /\ Opened(u).user = u
             /\ Opened(u).returned = TRUE
  BY DEF Opened
<1>3. Free.file = "none" /\ DummyEnd.file = "server FIFO"
  BY DEF Free, DummyEnd
<1>4. Free # DummyEnd
  BY <1>3
<1>5. \A u : Opening(u) # Free /\ Opening(u) # DummyEnd /\ Opened(u) # Free /\ Opened(u) # DummyEnd
  BY <1>1, <1>2, <1>3
<1>6. \A u, v : Opening(u) # Opened(v)
  <2>1. TRUE # FALSE
    OBVIOUS
  <2>2. QED
    BY <1>1, <1>2, <2>1, Zenon
<1>7. \A u, v : Opening(u) = Opening(v) => u = v
  BY <1>1, Zenon
<1>8. \A u, v : Opened(u) = Opened(v) => u = v
  BY <1>2, Zenon
<1>9. QED
  BY <1>4, <1>5, <1>6, <1>7, <1>8

\* The records of requests and replies are told apart, and replies by their codes.
LEMMA RecordsDiffer ==
    /\ RequestRecord \in Records
    /\ \A c \in Codes : ReplyRecord(c) \in Records
    /\ \A c : ReplyRecord(c) # RequestRecord /\ ReplyRecord(c).kind = "reply"
    /\ RequestRecord.kind = "request"
    /\ \A c, d : ReplyRecord(c) = ReplyRecord(d) => c = d
<1>1. \A c : ReplyRecord(c).kind = "reply" /\ ReplyRecord(c).ret_code = c
  BY DEF ReplyRecord
<1>2. RequestRecord.kind = "request"
  BY DEF RequestRecord
<1>3. QED
  BY <1>1, <1>2 DEF Records

-----------------------------------------------------------------------------
(* Types.                                                                  *)

\* What TypeOK says of the users and their FIFOs, and of the server.
UserTyped ==
    /\ upc \in [Users -> {"mkfifo", "open_server", "write", "alarm", "log_request",
                          "flag_request", "open_own", "read", "cancel_alarm",
                          "log_reply", "exit", "left", "failed", "killed"}]
    /\ ret_user \in [Users -> Codes \cup {NoCode}]
    /\ armed \in [Users -> BOOLEAN]
    /\ logged_request \in [Users -> BOOLEAN]
    /\ logged_reply \in [Users -> BOOLEAN]
    /\ request_reply \in [Users -> Replies]
    /\ ulog \in [Users -> Seq(Records)]
    /\ linked \in [Users -> BOOLEAN]
    /\ reading \in [Users -> {"closed", "opening", "open"}]
    /\ content \in [Users -> Seq(Replies)]
ServerTyped ==
    /\ server \in {"up", "ended", "killed"}
    /\ accepting \in BOOLEAN
    /\ pending \in SUBSET Users
    /\ fd \in [Numbers -> Files]
    /\ misclosed \in BOOLEAN
    /\ slog \in [Users -> Seq(Records)]
BalconyTyped ==
    /\ bpc \in [Balconies -> {"idle", "log_request", "write_log_request", "serve",
                              "open", "log_reply", "write_log_reply", "write", "close"}]
    /\ first_request \in [Balconies -> Users \cup {Nobody}]
    /\ req_ret \in [Balconies -> Codes \cup {NoCode}]
    /\ user_fifo \in [Balconies -> Numbers \cup {BadFd}]
    /\ log_mutex \in Balconies \cup {Nobody}
    /\ log_buffer \in [user : Users \cup {Nobody}, record : Records]

\* The types of the users, of what they share with the server, and of the balconies.
LEMMA Typed == TypeOK <=> UserTyped /\ ServerTyped /\ BalconyTyped
BY DEF TypeOK, UserTyped, ServerTyped, BalconyTyped

\* The same in the next state.
LEMMA TypedNext == TypeOK' <=> UserTyped' /\ ServerTyped' /\ BalconyTyped'
BY DEF TypeOK, UserTyped, ServerTyped, BalconyTyped

\* How the sequences of this module are built.
LEMMA SequencesAre ==
    /\ \A S, x : x \in S => <<x>> \in Seq(S)
    /\ \A S, x, y : x \in S /\ y \in S => <<x, y>> \in Seq(S)
    /\ \A S : <<>> \in Seq(S)
    /\ \A S : \A s \in Seq(S) : \A x \in S : Append(s, x) \in Seq(S)
    /\ \A S : \A s, t \in Seq(S) : s \o t \in Seq(S)
    /\ \A S : \A s \in Seq(S) : s # <<>> => Head(s) \in S /\ Tail(s) \in Seq(S)
<1>1. \A S : \A s \in Seq(S) : \A x \in S : Append(s, x) \in Seq(S)
  BY AppendProperties
<1>2. \A S : \A s, t \in Seq(S) : s \o t \in Seq(S)
  BY ConcatProperties
<1>3. \A S : \A s \in Seq(S) : s # <<>> => Head(s) \in S /\ Tail(s) \in Seq(S)
  BY HeadTailProperties
<1>4. QED
  BY <1>1, <1>2, <1>3

\* What the end of a process leaves of its own state.
LEMMA TerminateTypes ==
    ASSUME UserTyped, NEW u \in Users, NEW l, Terminate(u, l), l \in {"left", "failed", "killed"}
    PROVE  /\ upc' = [upc EXCEPT ![u] = l]
           /\ upc' \in [Users -> {"mkfifo", "open_server", "write", "alarm", "log_request",
                          "flag_request", "open_own", "read", "cancel_alarm",
                          "log_reply", "exit", "left", "failed", "killed"}]
           /\ armed' \in [Users -> BOOLEAN]
           /\ logged_request' \in [Users -> BOOLEAN]
           /\ logged_reply' \in [Users -> BOOLEAN]
           /\ request_reply' \in [Users -> Replies]
           /\ reading' \in [Users -> {"closed", "opening", "open"}]
           /\ content' \in [Users -> Seq(Replies)]
<1> USE DEF Terminate, UserTyped
<1>1. NoReply \in Replies
  BY DEF NoReply, Replies
<1>2. content' \in [Users -> Seq(Replies)]
  <2>1. <<>> \in Seq(Replies)
    BY SequencesAre
  <2>2. QED
    BY <2>1
<1>3. request_reply' \in [Users -> Replies]
  BY <1>1
<1>4. armed' \in [Users -> BOOLEAN]
  OBVIOUS
<1>5. logged_request' \in [Users -> BOOLEAN]
  OBVIOUS
<1>6. logged_reply' \in [Users -> BOOLEAN]
  OBVIOUS
<1>7. /\ upc' = [upc EXCEPT ![u] = l]
      /\ upc' \in [Users -> {"mkfifo", "open_server", "write", "alarm", "log_request",
                          "flag_request", "open_own", "read", "cancel_alarm",
                          "log_reply", "exit", "left", "failed", "killed"}]
  BY DEF UserGoto
<1>8. reading' \in [Users -> {"closed", "opening", "open"}]
  OBVIOUS
<1>9. QED
  BY <1>2, <1>3, <1>4, <1>5, <1>6, <1>7, <1>8

\* No step of a user breaks a type.
LEMMA UserTypes ==
    ASSUME IInv, NEW u \in Users, UserNext(u)
    PROVE  TypeOK'
<1> USE DEF fifoVars, userVars
<1>0. UserTyped /\ ServerTyped /\ BalconyTyped
  BY Typed DEF IInv
<1>1. BalconyTyped'
  <2>1. UNCHANGED <<bpc, first_request, req_ret, user_fifo, log_mutex, log_buffer>>
    BY DEF UserNext, UserStep, balconyVars, logVars, MakeFifo, OpenServer, WriteRequest,
       SetAlarm, LogRequest, FlagRequest, OpenOwn, ReadReply, ReadEndOfFile, CancelAlarm,
       LogReply, ExitUserProcess, Alarm, UserKilled
  <2>2. QED
    BY <1>0, <2>1 DEF BalconyTyped
<1>2. ServerTyped'
  <2>1. UNCHANGED <<server, accepting, misclosed, slog>>
    BY DEF UserNext, UserStep, serverVars, MakeFifo, OpenServer, WriteRequest,
       SetAlarm, LogRequest, FlagRequest, OpenOwn, ReadReply, ReadEndOfFile, CancelAlarm,
       LogReply, ExitUserProcess, Alarm, UserKilled
  <2>2. pending' \in SUBSET Users
    BY <1>0 DEF ServerTyped, UserNext, UserStep, serverVars, MakeFifo, OpenServer, WriteRequest,
       SetAlarm, LogRequest, FlagRequest, OpenOwn, ReadReply, ReadEndOfFile, CancelAlarm,
       LogReply, ExitUserProcess, Alarm, UserKilled
  <2>3. fd' \in [Numbers -> Files]
    <3>1. CASE OpenOwn(u)
      <4>1. Opened(u) \in Files
        BY DEF Files
      <4>2. QED
        BY <1>0, <3>1, <4>1 DEF OpenOwn, ServerTyped
    <3>2. CASE ~OpenOwn(u)
      BY <1>0, <3>2 DEF ServerTyped, UserNext, UserStep, MakeFifo, OpenServer, WriteRequest,
         SetAlarm, LogRequest, FlagRequest, ReadReply, ReadEndOfFile, CancelAlarm,
         LogReply, ExitUserProcess, Alarm, UserKilled
    <3>3. QED
      BY <3>1, <3>2
  <2>4. QED
    BY <1>0, <2>1, <2>2, <2>3 DEF ServerTyped
<1>3. UserTyped'
  <2>0. {"RC_OK", "RC_SRV_DOWN", "RC_SRV_TIMEOUT", "RC_OTHER"} \subseteq Codes
    BY DEF Codes
  <2>1. CASE MakeFifo(u)
    <3>1. linked' \in [Users -> BOOLEAN]
      BY <1>0, <2>1 DEF MakeFifo, UserTyped
    <3>2. QED
      BY <1>0, <2>1, <3>1 DEF MakeFifo, UserTyped, UserGoto
  <2>2. CASE OpenServer(u)
    <3>1. ret_user' \in [Users -> Codes \cup {NoCode}]
      BY <1>0, <2>0, <2>2 DEF OpenServer, UserTyped, ExitWith
    <3>2. upc' = [upc EXCEPT ![u] = "write"] \/ upc' = [upc EXCEPT ![u] = "exit"]
      BY <2>2 DEF OpenServer, ExitWith, UserGoto
    <3>3. QED
      BY <1>0, <2>2, <3>1, <3>2 DEF OpenServer, UserTyped
  <2>3. CASE WriteRequest(u)
    <3>1. CASE server = "up"
      BY <1>0, <2>3, <3>1 DEF WriteRequest, UserTyped, UserGoto
    <3>2. CASE server # "up"
      <4>1. Terminate(u, "killed")
        BY <2>3, <3>2 DEF WriteRequest
      <4>2. ret_user' = ret_user /\ ulog' = ulog /\ linked' = linked
        BY <2>3 DEF WriteRequest
      <4>3. QED
        BY <1>0, <4>1, <4>2, TerminateTypes DEF UserTyped
    <3>3. QED
      BY <3>1, <3>2
  <2>4. CASE SetAlarm(u)
    <3>1. armed' \in [Users -> BOOLEAN]
      BY <1>0, <2>4 DEF SetAlarm, UserTyped
    <3>2. QED
      BY <1>0, <2>4, <3>1 DEF SetAlarm, UserTyped, UserGoto
  <2>5. CASE LogRequest(u)
    <3>1. ulog' \in [Users -> Seq(Records)]
      <4>1. Append(ulog[u], RequestRecord) \in Seq(Records)
        BY <1>0, RecordsDiffer, SequencesAre DEF UserTyped
      <4>2. QED
        BY <1>0, <2>5, <4>1 DEF LogRequest, UserTyped
    <3>2. QED
      BY <1>0, <2>5, <3>1 DEF LogRequest, UserTyped, UserGoto
  <2>6. CASE FlagRequest(u)
    <3>1. logged_request' \in [Users -> BOOLEAN]
      BY <1>0, <2>6 DEF FlagRequest, UserTyped
    <3>2. QED
      BY <1>0, <2>6, <3>1 DEF FlagRequest, UserTyped, UserGoto
  <2>7. CASE OpenOwn(u)
    <3>1. reading' \in [Users -> {"closed", "opening", "open"}]
      BY <1>0, <2>7 DEF OpenOwn, UserTyped
    <3>2. QED
      BY <1>0, <2>7, <3>1 DEF OpenOwn, UserTyped, UserGoto
  <2>8. CASE ReadReply(u)
    <3>1. Head(content[u]) \in Replies /\ Tail(content[u]) \in Seq(Replies)
      <4>1. content[u] \in Seq(Replies) /\ content[u] # <<>>
        BY <1>0, <2>8 DEF ReadReply, UserTyped
      <4>2. QED
        BY <4>1, SequencesAre
    <3>2. request_reply' \in [Users -> Replies]
      BY <1>0, <2>8, <3>1 DEF ReadReply, UserTyped
    <3>3. content' \in [Users -> Seq(Replies)]
      BY <1>0, <2>8, <3>1 DEF ReadReply, UserTyped
    <3>4. QED
      BY <1>0, <2>8, <3>2, <3>3 DEF ReadReply, UserTyped, UserGoto
  <2>9. CASE ReadEndOfFile(u)
    <3>1. ret_user' \in [Users -> Codes \cup {NoCode}]
      BY <1>0, <2>0, <2>9 DEF ReadEndOfFile, UserTyped
    <3>2. Terminate(u, "failed") /\ ulog' = ulog /\ linked' = linked
      BY <2>9 DEF ReadEndOfFile
    <3>3. QED
      BY <1>0, <3>1, <3>2, TerminateTypes DEF UserTyped
  <2>10. CASE CancelAlarm(u)
    <3>1. armed' \in [Users -> BOOLEAN]
      BY <1>0, <2>10 DEF CancelAlarm, UserTyped
    <3>2. QED
      BY <1>0, <2>10, <3>1 DEF CancelAlarm, UserTyped, UserGoto
  <2>11. CASE LogReply(u)
    <3>1. ulog' \in [Users -> Seq(Records)]
      <4>1. request_reply[u].ret_code \in Codes
        BY <2>11 DEF LogReply, IInv, UserFiles
      <4>2. Append(ulog[u], ReplyRecord(request_reply[u].ret_code)) \in Seq(Records)
        BY <1>0, <4>1, RecordsDiffer, SequencesAre DEF UserTyped
      <4>3. QED
        BY <1>0, <2>11, <4>2 DEF LogReply, UserTyped
    <3>2. logged_reply' \in [Users -> BOOLEAN]
      BY <1>0, <2>11 DEF LogReply, UserTyped
    <3>3. ret_user' \in [Users -> Codes \cup {NoCode}]
      BY <1>0, <2>0, <2>11 DEF LogReply, ExitWith, UserTyped
    <3>4. QED
      BY <1>0, <2>11, <3>1, <3>2, <3>3 DEF LogReply, UserTyped, ExitWith, UserGoto
  <2>12. CASE ExitUserProcess(u)
    <3>1. ulog' \in [Users -> Seq(Records)]
      <4>1. ret_user[u] \in Codes
        BY <2>0, <2>12 DEF ExitUserProcess, IInv, UserRecords
      <4>2. MissingRecords(u) \in Seq(Records)
        <5>1. (IF logged_request[u] THEN <<>> ELSE <<RequestRecord>>) \in Seq(Records)
          BY RecordsDiffer, SequencesAre
        <5>2. (IF logged_reply[u] THEN <<>> ELSE <<ReplyRecord(ret_user[u])>>) \in Seq(Records)
          BY <4>1, RecordsDiffer, SequencesAre
        <5>3. QED
          BY <5>1, <5>2, SequencesAre DEF MissingRecords
      <4>3. ulog[u] \o MissingRecords(u) \in Seq(Records)
        BY <1>0, <4>2, SequencesAre DEF UserTyped
      <4>4. QED
        BY <1>0, <2>12, <4>3 DEF ExitUserProcess, UserTyped
    <3>2. linked' \in [Users -> BOOLEAN]
      BY <1>0, <2>12 DEF ExitUserProcess, UserTyped
    <3>3. Terminate(u, "left") /\ ret_user' = ret_user
      BY <2>12 DEF ExitUserProcess
    <3>4. QED
      BY <1>0, <3>1, <3>2, <3>3, TerminateTypes DEF UserTyped
  <2>13. CASE Alarm(u)
    <3>1. ret_user' \in [Users -> Codes \cup {NoCode}]
      BY <1>0, <2>0, <2>13 DEF Alarm, ExitWith, UserTyped
    <3>2. armed' \in [Users -> BOOLEAN]
      BY <1>0, <2>13 DEF Alarm, UserTyped
    <3>3. QED
      BY <1>0, <2>13, <3>1, <3>2 DEF Alarm, UserTyped, ExitWith, UserGoto
  <2>14. CASE UserKilled(u)
    <3>1. ret_user' \in [Users -> Codes \cup {NoCode}]
      BY <1>0, <2>14 DEF UserKilled, UserTyped
    <3>2. Terminate(u, "killed") /\ ulog' = ulog /\ linked' = linked
      BY <2>14 DEF UserKilled
    <3>3. QED
      BY <1>0, <3>1, <3>2, TerminateTypes DEF UserTyped
  <2>15. QED
    BY <2>1, <2>2, <2>3, <2>4, <2>5, <2>6, <2>7, <2>8, <2>9, <2>10, <2>11, <2>12, <2>13,
       <2>14 DEF UserNext, UserStep
<1>4. QED
  BY <1>1, <1>2, <1>3, TypedNext

-----------------------------------------------------------------------------
(* What the steps of a user do.                                            *)

\* A user changes nothing of the server but its descriptors and what is pending.
LEMMA UserFrame ==
    ASSUME IInv, NEW u \in Users, UserNext(u)
    PROVE  /\ UNCHANGED <<server, accepting, misclosed, slog>>
           /\ UNCHANGED <<bpc, first_request, req_ret, user_fifo, log_mutex, log_buffer>>
           /\ fd' = fd \/ OpenOwn(u)
           /\ \/ pending' = pending
              \/ upc[u] = "write" /\ upc'[u] = "alarm" /\ pending' = pending \cup {u}
<1>0. UserTyped /\ ServerTyped /\ BalconyTyped
  BY Typed DEF IInv
<1>1. CASE MakeFifo(u)
  BY <1>0, <1>1 DEF MakeFifo, UserTyped, UserGoto, fifoVars, serverVars, balconyVars,
     logVars
<1>2. CASE OpenServer(u)
  BY <1>0, <1>2 DEF OpenServer, UserTyped, UserGoto, fifoVars, serverVars,
     balconyVars, logVars
<1>3. CASE WriteRequest(u)
  BY <1>0, <1>3 DEF WriteRequest, UserTyped, UserGoto, fifoVars, serverVars,
     balconyVars, logVars
<1>4. CASE SetAlarm(u)
  BY <1>0, <1>4 DEF SetAlarm, UserTyped, UserGoto, fifoVars, serverVars, balconyVars,
     logVars
<1>5. CASE LogRequest(u)
  BY <1>0, <1>5 DEF LogRequest, UserTyped, UserGoto, fifoVars, serverVars,
     balconyVars, logVars
<1>6. CASE FlagRequest(u)
  BY <1>0, <1>6 DEF FlagRequest, UserTyped, UserGoto, fifoVars, serverVars,
     balconyVars, logVars
<1>7. CASE OpenOwn(u)
  BY <1>0, <1>7 DEF OpenOwn, UserTyped, UserGoto, fifoVars, serverVars, balconyVars,
     logVars
<1>8. CASE ReadReply(u)
  BY <1>0, <1>8 DEF ReadReply, UserTyped, UserGoto, fifoVars, serverVars, balconyVars,
     logVars
<1>9. CASE ReadEndOfFile(u)
  BY <1>0, <1>9 DEF ReadEndOfFile, UserTyped, UserGoto, fifoVars, serverVars,
     balconyVars, logVars
<1>10. CASE CancelAlarm(u)
  BY <1>0, <1>10 DEF CancelAlarm, UserTyped, UserGoto, fifoVars, serverVars,
     balconyVars, logVars
<1>11. CASE LogReply(u)
  BY <1>0, <1>11 DEF LogReply, UserTyped, UserGoto, fifoVars, serverVars, balconyVars,
     logVars
<1>12. CASE ExitUserProcess(u)
  BY <1>0, <1>12 DEF ExitUserProcess, UserTyped, UserGoto, fifoVars, serverVars,
     balconyVars, logVars
<1>13. CASE Alarm(u)
  BY <1>0, <1>13 DEF Alarm, UserTyped, UserGoto, fifoVars, serverVars, balconyVars,
     logVars
<1>14. CASE UserKilled(u)
  BY <1>0, <1>14 DEF UserKilled, UserTyped, UserGoto, fifoVars, serverVars,
     balconyVars, logVars
<1>15. QED
  BY <1>1, <1>2, <1>3, <1>4, <1>5, <1>6, <1>7, <1>8, <1>9, <1>10, <1>11, <1>12, <1>13,
     <1>14 DEF UserNext, UserStep

\* Nor anything of the other users.
LEMMA OthersStay ==
    ASSUME IInv, NEW u \in Users, UserNext(u)
    PROVE  \A v \in Users \ {u} :
               /\ upc'[v] = upc[v] /\ ret_user'[v] = ret_user[v] /\ armed'[v] = armed[v]
               /\ logged_request'[v] = logged_request[v] /\ logged_reply'[v] = logged_reply[v]
               /\ request_reply'[v] = request_reply[v] /\ ulog'[v] = ulog[v]
               /\ linked'[v] = linked[v] /\ reading'[v] = reading[v]
               /\ content'[v] = content[v]
<1>0. UserTyped /\ ServerTyped /\ BalconyTyped
  BY Typed DEF IInv
<1>1. CASE MakeFifo(u)
  BY <1>0, <1>1 DEF MakeFifo, UserTyped, UserGoto, ExitWith, Terminate, fifoVars,
     serverVars
<1>2. CASE OpenServer(u)
  BY <1>0, <1>2 DEF OpenServer, UserTyped, UserGoto, ExitWith, Terminate, fifoVars,
     serverVars
<1>3. CASE WriteRequest(u)
  BY <1>0, <1>3 DEF WriteRequest, UserTyped, UserGoto, ExitWith, Terminate, fifoVars,
     serverVars
<1>4. CASE SetAlarm(u)
  BY <1>0, <1>4 DEF SetAlarm, UserTyped, UserGoto, ExitWith, Terminate, fifoVars,
     serverVars
<1>5. CASE LogRequest(u)
  BY <1>0, <1>5 DEF LogRequest, UserTyped, UserGoto, ExitWith, Terminate, fifoVars,
     serverVars
<1>6. CASE FlagRequest(u)
  BY <1>0, <1>6 DEF FlagRequest, UserTyped, UserGoto, ExitWith, Terminate, fifoVars,
     serverVars
<1>7. CASE OpenOwn(u)
  BY <1>0, <1>7 DEF OpenOwn, UserTyped, UserGoto, ExitWith, Terminate, fifoVars,
     serverVars
<1>8. CASE ReadReply(u)
  BY <1>0, <1>8 DEF ReadReply, UserTyped, UserGoto, ExitWith, Terminate, fifoVars,
     serverVars
<1>9. CASE ReadEndOfFile(u)
  BY <1>0, <1>9 DEF ReadEndOfFile, UserTyped, UserGoto, ExitWith, Terminate, fifoVars,
     serverVars
<1>10. CASE CancelAlarm(u)
  BY <1>0, <1>10 DEF CancelAlarm, UserTyped, UserGoto, ExitWith, Terminate, fifoVars,
     serverVars
<1>11. CASE LogReply(u)
  BY <1>0, <1>11 DEF LogReply, UserTyped, UserGoto, ExitWith, Terminate, fifoVars,
     serverVars
<1>12. CASE ExitUserProcess(u)
  BY <1>0, <1>12 DEF ExitUserProcess, UserTyped, UserGoto, ExitWith, Terminate,
     fifoVars, serverVars
<1>13. CASE Alarm(u)
  BY <1>0, <1>13 DEF Alarm, UserTyped, UserGoto, ExitWith, Terminate, fifoVars,
     serverVars
<1>14. CASE UserKilled(u)
  BY <1>0, <1>14 DEF UserKilled, UserTyped, UserGoto, ExitWith, Terminate, fifoVars,
     serverVars
<1>15. QED
  BY <1>1, <1>2, <1>3, <1>4, <1>5, <1>6, <1>7, <1>8, <1>9, <1>10, <1>11, <1>12, <1>13,
     <1>14 DEF UserNext, UserStep

\* Where a user goes, and what it takes along.
LEMMA UserMoves ==
    ASSUME IInv, NEW u \in Users, UserNext(u)
    PROVE  /\ upc[u] \notin {"left", "failed", "killed"}
           /\ upc'[u] \in Unsent => upc[u] \in Unsent /\ pending' = pending
           /\ upc[u] \in HasOpened => upc'[u] \in HasOpened
           /\ linked'[u] = linked[u] \/ upc'[u] = "left" \/ upc[u] = "mkfifo"
           /\ ret_user'[u] = "RC_SRV_DOWN" =>
                  (upc[u] \in Unsent /\ pending' = pending) \/ ret_user[u] = "RC_SRV_DOWN"
           /\ \/ content'[u] \in {<<>>, content[u]}
              \/ content[u] # <<>> /\ content'[u] = Tail(content[u])
           /\ upc'[u] \in {"cancel_alarm", "log_reply"} => ReadReply(u) \/ CancelAlarm(u)
           /\ Done(u)' => LogReply(u) \/ (Done(u) /\ ExitUserProcess(u))
           /\ upc'[u] = "read" => OpenOwn(u)
           /\ upc'[u] = "failed" => ReadEndOfFile(u)
           /\ upc'[u] = "left" => ExitUserProcess(u)
           /\ upc[u] \notin {"mkfifo", "exit"} => linked'[u] = linked[u]
           /\ reading'[u] \in {"closed", reading[u]} \/ OpenOwn(u)
<1> USE DEF Unsent, HasOpened, Done
<1>0. UserTyped /\ ServerTyped /\ BalconyTyped
  BY Typed DEF IInv
<1>1. CASE MakeFifo(u)
  BY <1>0, <1>1 DEF MakeFifo, UserTyped, UserGoto, ExitWith, Terminate, fifoVars,
     serverVars
<1>2. CASE OpenServer(u)
  BY <1>0, <1>2 DEF OpenServer, UserTyped, UserGoto, ExitWith, Terminate, fifoVars,
     serverVars
<1>3. CASE WriteRequest(u)
  BY <1>0, <1>3 DEF WriteRequest, UserTyped, UserGoto, ExitWith, Terminate, fifoVars,
     serverVars
<1>4. CASE SetAlarm(u)
  BY <1>0, <1>4 DEF SetAlarm, UserTyped, UserGoto, ExitWith, Terminate, fifoVars,
     serverVars
<1>5. CASE LogRequest(u)
  BY <1>0, <1>5 DEF LogRequest, UserTyped, UserGoto, ExitWith, Terminate, fifoVars,
     serverVars
<1>6. CASE FlagRequest(u)
  BY <1>0, <1>6 DEF FlagRequest, UserTyped, UserGoto, ExitWith, Terminate, fifoVars,
     serverVars
<1>7. CASE OpenOwn(u)
  BY <1>0, <1>7 DEF OpenOwn, UserTyped, UserGoto, ExitWith, Terminate, fifoVars,
     serverVars
<1>8. CASE ReadReply(u)
  BY <1>0, <1>8 DEF ReadReply, UserTyped, UserGoto, ExitWith, Terminate, fifoVars,
     serverVars
<1>9. CASE ReadEndOfFile(u)
  BY <1>0, <1>9 DEF ReadEndOfFile, UserTyped, UserGoto, ExitWith, Terminate, fifoVars,
     serverVars
<1>10. CASE CancelAlarm(u)
  BY <1>0, <1>10 DEF CancelAlarm, UserTyped, UserGoto, ExitWith, Terminate, fifoVars,
     serverVars
<1>11. CASE LogReply(u)
  BY <1>0, <1>11 DEF LogReply, UserTyped, UserGoto, ExitWith, Terminate, fifoVars,
     serverVars
<1>12. CASE ExitUserProcess(u)
  BY <1>0, <1>12 DEF ExitUserProcess, UserTyped, UserGoto, ExitWith, Terminate,
     fifoVars, serverVars
<1>13. CASE Alarm(u)
  <2>1. upc[u] \in Interruptible
    BY <1>13 DEF Alarm, IInv, UserRecords
  <2>2. QED
    BY <1>0, <2>1, <1>13 DEF Interruptible, Alarm, UserTyped, ExitWith, UserGoto, fifoVars, serverVars
<1>14. CASE UserKilled(u)
  BY <1>0, <1>14 DEF UserKilled, Ended, NoCode, UserTyped, UserGoto, ExitWith, Terminate, fifoVars,
     serverVars
<1>15. QED
  BY <1>1, <1>2, <1>3, <1>4, <1>5, <1>6, <1>7, <1>8, <1>9, <1>10, <1>11, <1>12, <1>13,
     <1>14 DEF UserNext, UserStep

\* A log never has more than three records: its appends, as equations.
LEMMA SmallLogs ==
    /\ \A r : Append(<<>>, r) = <<r>>
    /\ \A r, s : Append(<<r>>, s) = <<r, s>>
    /\ <<>> \o <<>> = <<>>
    /\ \A r : <<>> \o <<r>> = <<r>> /\ <<r>> \o <<>> = <<r>>
    /\ \A r, s : <<r>> \o <<s>> = <<r, s>> /\ <<>> \o <<r, s>> = <<r, s>>
    /\ \A r, s : <<r, s>> \o <<>> = <<r, s>>
    /\ \A r, s, t : <<r>> \o <<s, t>> = <<r, s, t>>
    /\ \A r, s : <<r, s>> # <<r>> /\ <<r, s>> # <<>> /\ <<r>> # <<>>
    /\ \A r, s, p, q : <<r, s>> = <<p, q>> => r = p /\ s = q
<1>1. \A r : Append(<<>>, r) = <<r>>
  OBVIOUS
<1>2. \A r, s : Append(<<r>>, s) = <<r, s>>
  <2> TAKE r, s
  <2>1. PICK t : t = Append(<<r>>, s)
    OBVIOUS
  <2>2. t \in Seq({r, s}) /\ Len(t) = 2 /\ t[1] = r /\ t[2] = s
    BY <2>1, AppendProperties
  <2>3. QED
    <3>1. <<r, s>> \in Seq({r, s}) /\ Len(<<r, s>>) = 2
      OBVIOUS
    <3>2. \A i \in 1 .. Len(t) : t[i] = <<r, s>>[i]
      BY <2>2
    <3>3. t = <<r, s>>
      BY <2>2, <3>1, <3>2, SeqEqual
    <3>4. QED
      BY <2>1, <3>3
<1>3. <<>> \o <<>> = <<>>
  OBVIOUS
<1>4. \A r : <<>> \o <<r>> = <<r>> /\ <<r>> \o <<>> = <<r>>
  OBVIOUS
<1>5a. \A r, s : <<r>> \o <<s>> = <<r, s>>
  <2> TAKE r, s
  <2>1. PICK p, q : p = <<r>> /\ q = <<s>>
    OBVIOUS
  <2>2. PICK t : t = p \o q
    OBVIOUS
  <2>3. p \in Seq({r, s}) /\ q \in Seq({r, s}) /\ Len(p) = 1 /\ Len(q) = 1
    BY <2>1
  <2>4. t \in Seq({r, s}) /\ Len(t) = 2
    BY <2>2, <2>3, ConcatProperties
  <2>5. t[1] = r /\ t[2] = s
    BY <2>1, <2>2, <2>3, ConcatProperties
  <2>6. PICK w : w = <<r, s>>
    OBVIOUS
  <2>7. w \in Seq({r, s}) /\ Len(w) = 2 /\ \A i \in 1 .. 2 : t[i] = w[i]
    BY <2>5, <2>6
  <2>8. t = w
    BY <2>4, <2>7, SeqEqual
  <2>9. QED
    BY <2>1, <2>2, <2>6, <2>8
<1>5b. \A r, s : <<>> \o <<r, s>> = <<r, s>>
  <2> TAKE r, s
  <2>1. <<r, s>> \in Seq({r, s})
    OBVIOUS
  <2>2. QED
    BY <2>1, ConcatEmptySeq
<1>5. \A r, s : <<r>> \o <<s>> = <<r, s>> /\ <<>> \o <<r, s>> = <<r, s>>
  BY <1>5a, <1>5b
<1>6. \A r, s : <<r, s>> \o <<>> = <<r, s>>
  OBVIOUS
<1>7. \A r, s, t : <<r>> \o <<s, t>> = <<r, s, t>>
  <2> TAKE r, s, t
  <2>1. PICK p, q : p = <<r>> /\ q = <<s, t>>
    OBVIOUS
  <2>2. PICK z : z = p \o q
    OBVIOUS
  <2>3. p \in Seq({r, s, t}) /\ q \in Seq({r, s, t}) /\ Len(p) = 1 /\ Len(q) = 2
    BY <2>1
  <2>4. z \in Seq({r, s, t}) /\ Len(z) = 3
    <3>1. z \in Seq({r, s, t}) /\ Len(z) = Len(p) + Len(q)
      BY <2>2, <2>3, ConcatProperties, Zenon
    <3>2. QED
      BY <2>3, <3>1
  <2>5. z[1] = r /\ z[2] = s /\ z[3] = t
    BY <2>1, <2>2, <2>3, ConcatProperties
  <2>6. PICK w : w = <<r, s, t>>
    OBVIOUS
  <2>7. w \in Seq({r, s, t}) /\ Len(w) = 3 /\ \A i \in 1 .. 3 : z[i] = w[i]
    BY <2>5, <2>6
  <2>8. z = w
    BY <2>4, <2>7, SeqEqual
  <2>9. QED
    BY <2>1, <2>2, <2>6, <2>8
<1>8. \A r, s : <<r, s>> # <<r>> /\ <<r, s>> # <<>> /\ <<r>> # <<>>
  OBVIOUS
<1>9. \A r, s, p, q : <<r, s>> = <<p, q>> => r = p /\ s = q
  OBVIOUS
<1>10. QED
  BY <1>1, <1>2, <1>3, <1>4, <1>5, <1>6, <1>7, <1>8, <1>9

\* The records of the user that moves. Its alarm may come between a record and its flag.
LEMMA UserKeepsRecords ==
    ASSUME IInv, NEW u \in Users, UserNext(u)
    PROVE  UserRecords(u)'
<1>0. UserTyped /\ ServerTyped /\ BalconyTyped
  BY Typed DEF IInv
<1>a. UserRecords(u)
  BY DEF IInv
<1>1. CASE MakeFifo(u)
  BY <1>0, <1>a, <1>1 DEF MakeFifo, UserTyped, UserGoto, ExitWith, Terminate, Interruptible,
     Unsent, NoCode, UserRecords
<1>2. CASE OpenServer(u)
  BY <1>0, <1>a, <1>2 DEF OpenServer, UserTyped, UserGoto, ExitWith, Terminate,
     Interruptible, Unsent, NoCode, UserRecords
<1>3. CASE WriteRequest(u)
  BY <1>0, <1>a, <1>3 DEF WriteRequest, UserTyped, UserGoto, ExitWith, Terminate,
     Interruptible, Unsent, NoCode, UserRecords
<1>4. CASE SetAlarm(u)
  BY <1>0, <1>a, <1>4 DEF SetAlarm, UserTyped, UserGoto, ExitWith, Terminate, Interruptible,
     Unsent, NoCode, UserRecords
<1>5. CASE LogRequest(u)
  <2>1. ulog'[u] = <<RequestRecord>>
    BY <1>0, <1>a, <1>a, <1>5, SmallLogs DEF LogRequest, UserTyped, UserRecords
  <2>2. QED
    BY <1>0, <1>a, <1>a, <1>5, <2>1 DEF LogRequest, UserTyped, UserGoto, ExitWith, Terminate, Interruptible, Unsent, NoCode, UserRecords
<1>6. CASE FlagRequest(u)
  BY <1>0, <1>a, <1>6 DEF FlagRequest, UserTyped, UserGoto, ExitWith, Terminate,
     Interruptible, Unsent, NoCode, UserRecords
<1>7. CASE OpenOwn(u)
  BY <1>0, <1>a, <1>7 DEF OpenOwn, UserTyped, UserGoto, ExitWith, Terminate, Interruptible,
     Unsent, NoCode, UserRecords
<1>8. CASE ReadReply(u)
  BY <1>0, <1>a, <1>8 DEF ReadReply, UserTyped, UserGoto, ExitWith, Terminate,
     Interruptible, Unsent, NoCode, UserRecords
<1>9. CASE ReadEndOfFile(u)
  BY <1>0, <1>a, <1>9 DEF ReadEndOfFile, UserTyped, UserGoto, ExitWith, Terminate,
     Interruptible, Unsent, NoCode, UserRecords
<1>10. CASE CancelAlarm(u)
  BY <1>0, <1>a, <1>10 DEF CancelAlarm, UserTyped, UserGoto, ExitWith, Terminate,
     Interruptible, Unsent, NoCode, UserRecords
<1>11. CASE LogReply(u)
  <2>1. ulog[u] = <<RequestRecord>> /\ logged_request[u] /\ ~armed[u]
    BY <1>a, <1>11 DEF LogReply, UserRecords, Interruptible
  <2>2. request_reply[u].ret_code \in Codes
    BY <1>11 DEF LogReply, IInv, UserFiles
  <2>3. ulog'[u] = <<RequestRecord, ReplyRecord(request_reply[u].ret_code)>>
    BY <1>0, <1>a, <2>1, <1>11, SmallLogs DEF LogReply, UserTyped
  <2>4. /\ upc'[u] = "exit" /\ ret_user'[u] = "RC_OK" /\ ~armed'[u]
        /\ logged_request'[u] /\ logged_reply'[u]
    BY <1>0, <1>a, <2>1, <1>11 DEF LogReply, UserTyped, ExitWith, UserGoto
  <2>5. QED
    BY <2>2, <2>3, <2>4 DEF UserRecords, Unsent
<1>12. CASE ExitUserProcess(u)
  <2>1. upc'[u] = "left" /\ armed'[u] = FALSE /\ ret_user' = ret_user
    BY <1>12, <1>0 DEF ExitUserProcess, Terminate, UserGoto, UserTyped
  <2>2. ulog'[u] = ulog[u] \o MissingRecords(u)
    BY <1>12, <1>0 DEF ExitUserProcess, UserTyped
  <2>3. CASE ret_user[u] = "RC_OK"
    <3>1. MissingRecords(u) = <<>> /\ \E c \in Codes : ulog[u] = <<RequestRecord, ReplyRecord(c)>>
      BY <1>a, <1>12, <2>3, SmallLogs DEF MissingRecords, ExitUserProcess, UserRecords
    <3>2. ulog'[u] = ulog[u]
      BY <2>2, <3>1, SmallLogs
    <3>3. QED
      BY <2>1, <2>3, <3>1, <3>2 DEF UserRecords, Unsent
  <2>4. CASE ret_user[u] = "RC_SRV_DOWN"
    <3>1. ulog'[u] = <<RequestRecord, ReplyRecord(ret_user[u])>>
      <4>1. ulog[u] = <<>> /\ ~logged_request[u] /\ ~logged_reply[u]
        BY <1>a, <1>12, <2>4 DEF ExitUserProcess, UserRecords
      <4>2. MissingRecords(u) = <<RequestRecord, ReplyRecord(ret_user[u])>>
        BY <4>1, SmallLogs DEF MissingRecords
      <4>3. QED
        BY <2>2, <4>1, <4>2, SmallLogs
    <3>2. QED
      BY <2>1, <2>4, <3>1 DEF UserRecords, Unsent
  <2>5. CASE ret_user[u] = "RC_SRV_TIMEOUT"
    <3>1. \/ ulog'[u] = <<RequestRecord, ReplyRecord(ret_user[u])>>
          \/ ulog'[u] = <<RequestRecord, RequestRecord, ReplyRecord(ret_user[u])>>
      <4>1. /\ ~logged_reply[u]
            /\ (ulog[u] = <<>> /\ ~logged_request[u]) \/ ulog[u] = <<RequestRecord>>
        BY <1>a, <1>12, <2>5 DEF ExitUserProcess, UserRecords
      <4>2. \/ MissingRecords(u) = <<RequestRecord, ReplyRecord(ret_user[u])>>
            \/ logged_request[u] /\ MissingRecords(u) = <<ReplyRecord(ret_user[u])>>
        <5> DEFINE r == ReplyRecord(ret_user[u])
        <5>1. CASE logged_request[u]
          <6>1. MissingRecords(u) = <<>> \o <<r>>
            BY <4>1, <5>1 DEF MissingRecords
          <6>2. QED
            BY <5>1, <6>1, SmallLogs
        <5>2. CASE ~logged_request[u]
          <6>1. MissingRecords(u) = <<RequestRecord>> \o <<r>>
            BY <4>1, <5>2 DEF MissingRecords
          <6>2. QED
            BY <6>1, SmallLogs
        <5>3. QED
          BY <5>1, <5>2
      <4>3. CASE ulog[u] = <<>> /\ ~logged_request[u]
        BY <2>2, <4>2, <4>3, SmallLogs
      <4>4. CASE ulog[u] = <<RequestRecord>>
        <5> DEFINE r == ReplyRecord(ret_user[u])
        <5>1. \/ ulog'[u] = <<RequestRecord>> \o <<r>>
              \/ ulog'[u] = <<RequestRecord>> \o <<RequestRecord, r>>
          BY <2>2, <4>2, <4>4
        <5>2. QED
          BY <5>1, SmallLogs
      <4>5. QED
        BY <4>1, <4>3, <4>4
    <3>2. QED
      BY <2>1, <2>5, <3>1 DEF UserRecords, Unsent
  <2>6. QED
    BY <1>a, <1>12, <2>3, <2>4, <2>5 DEF ExitUserProcess, UserRecords
<1>13. CASE Alarm(u)
  <2>1. upc[u] \in Interruptible
    BY <1>a, <1>13 DEF Alarm, UserRecords
  <2>2. /\ ~logged_reply[u]
        /\ (ulog[u] = <<>> /\ ~logged_request[u]) \/ ulog[u] = <<RequestRecord>>
    BY <1>a, <2>1, Zenon DEF Interruptible, UserRecords
  <2>3. /\ upc'[u] = "exit" /\ ret_user'[u] = "RC_SRV_TIMEOUT" /\ ~armed'[u]
        /\ ulog' = ulog /\ logged_request' = logged_request /\ logged_reply' = logged_reply
    BY <1>0, <1>a, <1>13 DEF Alarm, UserTyped, ExitWith, UserGoto
  <2>4. QED
    BY <2>2, <2>3 DEF UserRecords, Unsent
<1>14. CASE UserKilled(u)
  BY <1>0, <1>a, <1>14 DEF UserKilled, UserTyped, UserGoto, ExitWith, Terminate,
     Interruptible, Unsent, NoCode, UserRecords
<1>15. QED
  BY <1>1, <1>2, <1>3, <1>4, <1>5, <1>6, <1>7, <1>8, <1>9, <1>10, <1>11, <1>12, <1>13,
     <1>14 DEF UserNext, UserStep

\* A user that ends closes what it has open; only one that fails or is killed may leave
\* the name of its FIFO behind.
LEMMA TerminateFiles ==
    ASSUME UserTyped, NEW u \in Users, NEW l \in {"left", "failed", "killed"},
           Terminate(u, l), l = "failed" => linked'[u]
    PROVE  UserFiles(u)'
<1>1. upc'[u] = l /\ reading'[u] = "closed" /\ content'[u] = <<>>
  BY DEF UserTyped, Terminate, UserGoto
<1>2. Len(content'[u]) = 0
  BY <1>1
<1>3. QED
  BY <1>1, <1>2 DEF UserFiles, HasOpened

\* The files of the user that moves.
LEMMA UserKeepsFiles ==
    ASSUME IInv, NEW u \in Users, UserNext(u)
    PROVE  UserFiles(u)'
<1>0. UserTyped /\ ServerTyped /\ BalconyTyped
  BY Typed DEF IInv
<1>b. UserFiles(u)
  BY DEF IInv
<1>1. CASE MakeFifo(u)
  BY <1>0, <1>b, <1>1 DEF MakeFifo, UserTyped, UserGoto, ExitWith, Terminate, HasOpened,
     NoCode, UserFiles, fifoVars
<1>2. CASE OpenServer(u)
  BY <1>0, <1>b, <1>2 DEF OpenServer, UserTyped, UserGoto, ExitWith, Terminate, HasOpened,
     NoCode, UserFiles, fifoVars
<1>3. CASE WriteRequest(u)
  <2>1. CASE server = "up"
    BY <1>0, <1>b, <1>3, <2>1 DEF WriteRequest, UserTyped, UserGoto, HasOpened, UserFiles
  <2>2. CASE server # "up"
    <3>1. Terminate(u, "killed")
      BY <1>3, <2>2 DEF WriteRequest
    <3>2. QED
      BY <1>0, <3>1, TerminateFiles
  <2>3. QED
    BY <2>1, <2>2
<1>4. CASE SetAlarm(u)
  BY <1>0, <1>b, <1>4 DEF SetAlarm, UserTyped, UserGoto, ExitWith, Terminate, HasOpened,
     NoCode, UserFiles, fifoVars
<1>5. CASE LogRequest(u)
  BY <1>0, <1>b, <1>5 DEF LogRequest, UserTyped, UserGoto, ExitWith, Terminate, HasOpened,
     NoCode, UserFiles, fifoVars
<1>6. CASE FlagRequest(u)
  BY <1>0, <1>b, <1>6 DEF FlagRequest, UserTyped, UserGoto, ExitWith, Terminate, HasOpened,
     NoCode, UserFiles, fifoVars
<1>7. CASE OpenOwn(u)
  BY <1>0, <1>b, <1>7 DEF OpenOwn, UserTyped, UserGoto, HasOpened, UserFiles
<1>8. CASE ReadReply(u)
  <2>1. \A i \in 1 .. Len(content[u]) : content[u][i].ret_code \in Codes
    BY <1>b DEF UserFiles
  <2>2. content[u] # <<>> /\ content[u] \in Seq(Replies)
    BY <1>0, <1>b, <1>8 DEF ReadReply, UserTyped
  <2>3. request_reply'[u] = Head(content[u]) /\ content'[u] = Tail(content[u])
    BY <1>0, <1>b, <1>8 DEF ReadReply, UserTyped
  <2>4. PICK s : s = content[u]
    OBVIOUS
  <2>5. PICK t : t = Tail(s)
    OBVIOUS
  <2>6. /\ Len(s) \in Nat \ {0} /\ Head(s) = s[1] /\ Len(t) = Len(s) - 1
        /\ \A i \in 1 .. Len(t) : t[i] = s[i + 1]
    BY <2>2, <2>4, <2>5, HeadTailProperties, EmptySeq, LenProperties
  <2>7. Head(content[u]).ret_code \in Codes
    <3>1. 1 \in 1 .. Len(s)
      BY <2>6
    <3>2. QED
      BY <2>1, <2>4, <2>6, <3>1
  <2>8. \A i \in 1 .. Len(t) : t[i].ret_code \in Codes
    <3>1. \A i \in 1 .. Len(t) : i + 1 \in 1 .. Len(s)
      BY <2>6
    <3>2. QED
      BY <2>1, <2>4, <2>6, <3>1
  <2>9. \A i \in 1 .. Len(content'[u]) : content'[u][i].ret_code \in Codes
    BY <2>3, <2>4, <2>5, <2>8
  <2>10. upc[u] = "read" /\ upc'[u] = "cancel_alarm" /\ UNCHANGED <<linked, reading>>
    BY <1>0, <1>b, <1>8 DEF ReadReply, UserTyped, UserGoto
  <2>11. QED
    BY <1>b, <2>3, <2>7, <2>9, <2>10 DEF UserFiles, HasOpened
<1>9. CASE ReadEndOfFile(u)
  <2>1. Terminate(u, "failed") /\ linked'[u]
    BY <1>b, <1>9 DEF ReadEndOfFile, UserFiles
  <2>2. QED
    BY <1>0, <2>1, TerminateFiles
<1>10. CASE CancelAlarm(u)
  BY <1>0, <1>b, <1>10 DEF CancelAlarm, UserTyped, UserGoto, ExitWith, Terminate, HasOpened,
     NoCode, UserFiles, fifoVars
<1>11. CASE LogReply(u)
  BY <1>0, <1>b, <1>11 DEF LogReply, UserTyped, UserGoto, ExitWith, Terminate, HasOpened,
     NoCode, UserFiles, fifoVars
<1>12. CASE ExitUserProcess(u)
  <2>1. Terminate(u, "left") /\ "left" \in {"left", "failed", "killed"} /\ "left" # "failed"
    BY <1>12 DEF ExitUserProcess
  <2>2. QED
    BY <1>0, <2>1, TerminateFiles
<1>13. CASE Alarm(u)
  <2>1. upc[u] \in Interruptible
    BY <1>13 DEF Alarm, IInv, UserRecords
  <2>2. upc'[u] = "exit" /\ UNCHANGED <<linked, reading, content>>
    BY <1>0, <1>13 DEF Alarm, UserTyped, ExitWith, UserGoto, fifoVars
  <2>3. QED
    BY <1>b, <2>1, <2>2 DEF UserFiles, HasOpened, Interruptible
<1>14. CASE UserKilled(u)
  <2>1. Terminate(u, "killed")
    BY <1>14 DEF UserKilled
  <2>2. QED
    BY <1>0, <2>1, TerminateFiles
<1>15. QED
  BY <1>1, <1>2, <1>3, <1>4, <1>5, <1>6, <1>7, <1>8, <1>9, <1>10, <1>11, <1>12, <1>13,
     <1>14 DEF UserNext, UserStep

-----------------------------------------------------------------------------
(* A step of a user keeps the invariant.                                   *)

\* A user touches the records and files of no other one.
LEMMA UserKeepsUsers ==
    ASSUME IInv, NEW u \in Users, UserNext(u)
    PROVE  \A v \in Users : UserRecords(v)' /\ UserFiles(v)'
<1> SUFFICES ASSUME NEW v \in Users
             PROVE  UserRecords(v)' /\ UserFiles(v)'
  OBVIOUS
<1>1. CASE v = u
  BY <1>1, UserKeepsRecords, UserKeepsFiles
<1>2. CASE v # u
  <2>1. UserRecords(v) /\ UserFiles(v)
    BY DEF IInv
  <2>2. /\ upc'[v] = upc[v] /\ ret_user'[v] = ret_user[v] /\ armed'[v] = armed[v]
        /\ logged_request'[v] = logged_request[v] /\ logged_reply'[v] = logged_reply[v]
        /\ request_reply'[v] = request_reply[v] /\ ulog'[v] = ulog[v]
        /\ linked'[v] = linked[v] /\ reading'[v] = reading[v]
        /\ content'[v] = content[v]
    BY <1>2, OthersStay
  <2>3. UserRecords(v)'
    BY <2>1, <2>2 DEF UserRecords
  <2>4. UserFiles(v)'
    BY <2>1, <2>2 DEF UserFiles
  <2>5. QED
    BY <2>3, <2>4
<1>3. QED
  BY <1>1, <1>2

\* A user touches the way of its request only by sending it.
LEMMA UserKeepsRequests ==
    ASSUME IInv, NEW u \in Users, UserNext(u)
    PROVE  Requests'
<1>1. UNCHANGED <<bpc, first_request, req_ret, user_fifo>>
  BY UserFrame
<1>2. /\ \A v \in Users \ {u} : upc'[v] = upc[v] /\ ret_user'[v] = ret_user[v]
                               /\ linked'[v] = linked[v]
      /\ upc'[u] \in Unsent => upc[u] \in Unsent /\ pending' = pending
      /\ ret_user'[u] = "RC_SRV_DOWN" =>
            (upc[u] \in Unsent /\ pending' = pending) \/ ret_user[u] = "RC_SRV_DOWN"
      /\ linked'[u] = linked[u] \/ upc'[u] = "left" \/ upc[u] = "mkfifo"
      /\ upc[u] \notin {"mkfifo", "exit"} => linked'[u] = linked[u]
      /\ upc[u] # "left"
  BY OthersStay, UserMoves
<1>3. \/ pending' = pending
      \/ upc[u] = "write" /\ upc'[u] = "alarm" /\ pending' = pending \cup {u}
  BY UserFrame
<1>4. /\ ret_user[u] = "RC_SRV_DOWN" => upc[u] \in {"exit", "left"}
      /\ upc[u] = "write" => linked[u]
  BY DEF IInv, UserRecords, UserFiles
<1>5. \A v \in Users : Sent(v)' => Sent(v) \/ (v = u /\ upc[u] = "write" /\ upc'[u] = "alarm")
  BY <1>1, <1>3 DEF Sent
<1>6. \A v \in Users : upc[v] \in Unsent \/ ret_user[v] = "RC_SRV_DOWN" => ~Sent(v)
  BY DEF IInv, Requests
<1>7. \A v \in Users : Sent(v) => linked[v] \/ upc[v] = "left"
  BY DEF IInv, Requests
<1>8. \A b \in Balconies : first_request'[b] \notin pending'
  <2> SUFFICES ASSUME NEW b \in Balconies, first_request[b] \in pending'
               PROVE  FALSE
    BY <1>1
  <2>1. first_request[b] \notin pending
    BY DEF IInv, Requests
  <2>2. upc[u] = "write" /\ first_request[b] = u
    BY <1>3, <2>1
  <2>3. QED
    BY <1>6, <2>2 DEF Sent, Unsent
<1>9. \A v \in Users : upc'[v] \in Unsent \/ ret_user'[v] = "RC_SRV_DOWN" => ~Sent(v)'
  <2> SUFFICES ASSUME NEW v \in Users, Sent(v)',
                      upc'[v] \in Unsent \/ ret_user'[v] = "RC_SRV_DOWN"
               PROVE  FALSE
    OBVIOUS
  <2>1. CASE v # u
    BY <1>2, <1>5, <1>6, <2>1
  <2>2. CASE v = u
    <3>1. pending' = pending
      BY <1>2, <1>3, <1>4, <2>2 DEF Unsent
    <3>2. Sent(u)
      BY <1>1, <2>2, <3>1 DEF Sent
    <3>3. QED
      BY <1>2, <1>6, <2>2, <3>2
  <2>3. QED
    BY <2>1, <2>2
<1>10. \A v \in Users : Sent(v)' => linked'[v] \/ upc'[v] = "left"
  <2> SUFFICES ASSUME NEW v \in Users, Sent(v)'
               PROVE  linked'[v] \/ upc'[v] = "left"
    OBVIOUS
  <2>1. CASE v # u
    BY <1>2, <1>5, <1>7, <2>1
  <2>2. CASE v = u /\ upc[u] = "write"
    BY <1>2, <1>4, <2>2
  <2>3. CASE v = u /\ upc[u] # "write"
    <3>1. Sent(u)
      BY <1>5, <2>3
    <3>2. upc[u] # "mkfifo"
      BY <1>6, <3>1 DEF Unsent
    <3>3. QED
      BY <1>2, <1>7, <2>3, <3>1, <3>2
  <2>4. QED
    BY <2>1, <2>2, <2>3
<1>11. Requests
  BY DEF IInv
<1>12. QED
  BY <1>1, <1>8, <1>9, <1>10, <1>11 DEF Requests

\* A user touches neither the server log nor its buffer.
LEMMA UserKeepsServer ==
    ASSUME IInv, NEW u \in Users, UserNext(u)
    PROVE  ServerRecords' /\ Buffer'
<1>1. UNCHANGED <<slog, bpc, first_request, req_ret, log_mutex, log_buffer>>
  BY UserFrame
<1>2. ServerRecords /\ Buffer
  BY DEF IInv
<1>3. \A v \in Users : upc'[v] \in Unsent \/ v \in pending' => slog[v] = <<>>
  <2> SUFFICES ASSUME NEW v \in Users, upc'[v] \in Unsent \/ v \in pending'
               PROVE  slog[v] = <<>>
    OBVIOUS
  <2>1. upc[v] \in Unsent \/ v \in pending
    BY OthersStay, UserMoves, UserFrame DEF Unsent
  <2>2. QED
    BY <1>2, <2>1 DEF ServerRecords
<1>4. ServerRecords'
  BY <1>1, <1>2, <1>3 DEF ServerRecords
<1>5. Buffer'
  BY <1>1, <1>2 DEF Buffer
<1>6. QED
  BY <1>4, <1>5

\* A number that stands for the FIFO of a user keeps its balcony: a user that opens its
\* FIFO completes the open of that balcony, and one that ends frees no number.
LEMMA UserKeepsDescriptors ==
    ASSUME IInv, NEW u \in Users, UserNext(u)
    PROVE  Descriptors'
<1>1. UNCHANGED <<bpc, first_request, user_fifo>>
  BY UserFrame
<1>2. \A v \in Users : upc[v] \in HasOpened => upc'[v] \in HasOpened
  BY OthersStay, UserMoves
<1>3. Descriptors
  BY DEF IInv
<1>4. CASE fd' = fd
  BY <1>1, <1>2, <1>3, <1>4 DEF Descriptors, Using
<1>5. CASE OpenOwn(u)
  <2>1. \A n \in Numbers : \/ fd'[n] = fd[n] /\ fd[n] # Opening(u)
                           \/ fd[n] = Opening(u) /\ fd'[n] = Opened(u)
    BY <1>5 DEF OpenOwn
  <2>2. upc'[u] \in HasOpened
    BY <1>5 DEF OpenOwn, UserGoto, HasOpened, IInv, TypeOK
  <2>3. \A n \in Numbers : fd[n] = Opening(u) =>
            \E b \in Balconies : Using(b) /\ user_fifo[b] = n
    <3> SUFFICES ASSUME NEW n \in Numbers, fd[n] = Opening(u)
                 PROVE  \E b \in Balconies : Using(b) /\ user_fifo[b] = n
      OBVIOUS
    <3>1. PICK b \in Balconies : bpc[b] = "log_reply" /\ user_fifo[b] = n
      BY <1>3 DEF Descriptors
    <3>2. QED
      BY <3>1, ConstantsAre DEF Using
  <2> SUFFICES ASSUME NEW n \in Numbers
               PROVE  /\ fd'[n] = DummyEnd => n = Dummy
                      /\ \A v \in Users : fd'[n] = Opening(v) =>
                          \E b \in Balconies : bpc[b] = "log_reply" /\ user_fifo[b] = n
                                               /\ first_request[b] = v
                      /\ \A v \in Users : fd'[n] = Opened(v) =>
                          /\ upc'[v] \in HasOpened
                          /\ \E b \in Balconies : Using(b) /\ user_fifo[b] = n
    BY <1>1 DEF Descriptors, Using
  <2>4. CASE fd'[n] = fd[n]
    BY <1>2, <1>3, <2>4 DEF Descriptors
  <2>5. CASE fd[n] = Opening(u) /\ fd'[n] = Opened(u)
    BY <2>2, <2>3, <2>5, FilesDiffer
  <2>6. QED
    BY <2>1, <2>4, <2>5
<1>6. QED
  BY <1>4, <1>5, UserFrame

\* A user that nobody has answered finds nothing in its FIFO.
LEMMA UserKeepsNoReply ==
    ASSUME IInv, NEW u \in Users, UserNext(u)
    PROVE  NoReplyYet'
<1>1. UNCHANGED <<bpc, first_request>>
  BY UserFrame
<1>2. SUFFICES ASSUME NEW v \in Users, Unanswered(v)'
               PROVE  /\ ~HasWriter(v)' /\ content'[v] = <<>>
                      /\ upc'[v] \notin {"cancel_alarm", "log_reply"} /\ ~Done(v)'
  BY DEF NoReplyYet
<1>3. Unanswered(v)
  BY <1>1, <1>2, OthersStay, UserMoves, UserFrame DEF Unanswered, Unsent
<1>4. /\ ~HasWriter(v) /\ content[v] = <<>>
      /\ upc[v] \notin {"cancel_alarm", "log_reply"} /\ ~Done(v)
  BY <1>3 DEF IInv, NoReplyYet
<1>5. ~HasWriter(v)'
  <2>1. CASE fd' = fd
    BY <1>4, <2>1 DEF HasWriter
  <2>2. CASE OpenOwn(u)
    <3>1. \A n \in Numbers : fd'[n] = fd[n] \/ (fd[n] = Opening(u) /\ fd'[n] = Opened(u))
      BY <2>2 DEF OpenOwn
    <3>2. QED
      BY <1>4, <3>1, FilesDiffer DEF HasWriter
  <2>3. QED
    BY <2>1, <2>2, UserFrame
<1>6. CASE v # u
  BY <1>4, <1>5, <1>6, OthersStay DEF Done
<1>7. CASE v = u
  <2>1. content'[u] = <<>>
    BY <1>4, <1>7, UserMoves
  <2>2. ~ReadReply(u) /\ ~CancelAlarm(u) /\ ~LogReply(u)
    BY <1>4, <1>7 DEF ReadReply, CancelAlarm, LogReply
  <2>3. QED
    BY <1>4, <1>5, <1>7, <2>1, <2>2, UserMoves
<1>8. QED
  BY <1>6, <1>7

\* A user that has given up stays so.
LEMMA UserKeepsGaveUp ==
    ASSUME IInv, NEW u \in Users, UserNext(u)
    PROVE  DownGaveUp'
<1>1. UNCHANGED <<first_request, req_ret, slog>>
  BY UserFrame
<1>2. \A v : v \in Users /\ GaveUp(v) => GaveUp(v)'
  BY OthersStay, UserMoves DEF GaveUp
<1>3. DownGaveUp
  BY DEF IInv
<1>4. \A b \in Balconies : req_ret'[b] = "RC_USR_DOWN" =>
        first_request'[b] \in Users /\ GaveUp(first_request[b])'
  BY <1>1, <1>2, <1>3 DEF DownGaveUp
<1>5. \A v \in Users : slog'[v] = <<RequestRecord, ReplyRecord("RC_USR_DOWN")>> => GaveUp(v)'
  BY <1>1, <1>2, <1>3 DEF DownGaveUp
<1>6. QED
  BY <1>1, <1>4, <1>5 DEF DownGaveUp, GaveUp

\* The elements that are left when the first one is taken.
LEMMA TailIs ==
    ASSUME NEW S, NEW s \in Seq(S), s # <<>>
    PROVE  /\ 1 \in 1 .. Len(s) /\ Head(s) = s[1]
           /\ \A i \in 1 .. Len(Tail(s)) : i + 1 \in 1 .. Len(s) /\ Tail(s)[i] = s[i + 1]
<1>1. PICK t : t = Tail(s)
  OBVIOUS
<1>2. /\ Len(s) \in Nat \ {0} /\ Head(s) = s[1] /\ Len(t) = Len(s) - 1
      /\ \A i \in 1 .. Len(t) : t[i] = s[i + 1]
  BY <1>1, HeadTailProperties, EmptySeq, LenProperties
<1>3. QED
  BY <1>1, <1>2

\* A user logs the reply that it read, which is the one that the server recorded.
LEMMA UserKeepsOwnReply ==
    ASSUME IInv, NEW u \in Users, UserNext(u), OwnReply(u)
    PROVE  OwnReply(u)'
<1>0. UserTyped /\ slog' = slog
  BY Typed, UserFrame DEF IInv
<1>1. /\ \A i \in 1 .. Len(content[u]) :
            slog[u] = <<RequestRecord, ReplyRecord(content[u][i].ret_code)>>
      /\ upc[u] \in {"cancel_alarm", "log_reply"} =>
            slog[u] = <<RequestRecord, ReplyRecord(request_reply[u].ret_code)>>
      /\ Done(u) => slog[u] = ulog[u]
  BY DEF OwnReply
<1>2. content[u] \in Seq(Replies)
  BY <1>0 DEF UserTyped
<1>3. \A i \in 1 .. Len(content'[u]) :
        slog[u] = <<RequestRecord, ReplyRecord(content'[u][i].ret_code)>>
  <2>1. CASE content'[u] = content[u]
    BY <1>1, <2>1
  <2>2. CASE content'[u] = <<>>
    <3>1. Len(content'[u]) = 0
      BY <2>2
    <3>2. QED
      BY <3>1
  <2>3. CASE content[u] # <<>> /\ content'[u] = Tail(content[u])
    <3>1. \A i \in 1 .. Len(Tail(content[u])) :
            i + 1 \in 1 .. Len(content[u]) /\ Tail(content[u])[i] = content[u][i + 1]
      BY <1>2, <2>3, TailIs
    <3>2. QED
      BY <1>1, <2>3, <3>1
  <2>4. QED
    BY <2>1, <2>2, <2>3, UserMoves
<1>4. upc'[u] \in {"cancel_alarm", "log_reply"} =>
        slog[u] = <<RequestRecord, ReplyRecord(request_reply'[u].ret_code)>>
  <2>1. CASE ReadReply(u)
    <3>1. content[u] # <<>> /\ request_reply'[u] = Head(content[u])
      BY <1>0, <2>1 DEF ReadReply, UserTyped
    <3>2. request_reply'[u] = content[u][1] /\ 1 \in 1 .. Len(content[u])
      BY <1>2, <3>1, TailIs
    <3>3. QED
      BY <1>1, <3>2
  <2>2. CASE CancelAlarm(u)
    BY <1>1, <2>2 DEF CancelAlarm
  <2>3. QED
    BY <2>1, <2>2, UserMoves
<1>5. Done(u)' => slog[u] = ulog'[u]
  <2>1. CASE LogReply(u)
    <3>1. upc[u] = "log_reply" /\ ulog[u] = <<RequestRecord>>
      BY <2>1 DEF LogReply, IInv, UserRecords
    <3>2. ulog'[u] = <<RequestRecord, ReplyRecord(request_reply[u].ret_code)>>
      BY <1>0, <2>1, <3>1, SmallLogs DEF LogReply, UserTyped
    <3>3. QED
      BY <1>1, <3>1, <3>2
  <2>2. CASE Done(u) /\ ExitUserProcess(u)
    <3>1. logged_request[u] /\ logged_reply[u]
      BY <2>2 DEF Done, ExitUserProcess, IInv, UserRecords
    <3>2. MissingRecords(u) = <<>>
      BY <3>1, SmallLogs DEF MissingRecords
    <3>3. ulog'[u] = ulog[u] \o <<>> /\ ulog[u] \in Seq(Records)
      BY <1>0, <2>2, <3>2 DEF ExitUserProcess, UserTyped
    <3>4. ulog'[u] = ulog[u]
      BY <3>3, ConcatEmptySeq
    <3>5. QED
      BY <1>1, <2>2, <3>4
  <2>3. QED
    BY <2>1, <2>2, UserMoves
<1>6. QED
  BY <1>0, <1>3, <1>4, <1>5 DEF OwnReply

\* So does every user, as the step of one leaves the others alone.
LEMMA UserKeepsOwned ==
    ASSUME IInv, NEW u \in Users, UserNext(u)
    PROVE  Owned'
<1>1. UNCHANGED <<misclosed, slog, bpc, first_request, user_fifo>>
  BY UserFrame
<1>2. SUFFICES ASSUME ~misclosed
               PROVE  /\ \A b \in Balconies : OwnFifo(b)'
                      /\ \A v \in Users : OwnReply(v)'
  BY <1>1 DEF Owned
<1>3. /\ \A b \in Balconies : OwnFifo(b)
      /\ \A v \in Users : OwnReply(v)
  BY <1>2 DEF IInv, Owned
<1>4. \A b \in Balconies : OwnFifo(b)'
  <2>1. CASE fd' = fd
    BY <1>1, <1>3, <2>1 DEF OwnFifo
  <2>2. CASE OpenOwn(u)
    <3>1. \A n \in Numbers : \/ fd'[n] = fd[n] /\ fd[n] # Opening(u)
                             \/ fd[n] = Opening(u) /\ fd'[n] = Opened(u)
      BY <2>2 DEF OpenOwn
    <3>2. SUFFICES ASSUME NEW b \in Balconies, user_fifo[b] # BadFd
                   PROVE  OwnFifo(b)'
      BY <1>1 DEF OwnFifo
    <3>3. user_fifo[b] \in Numbers
      BY <3>2 DEF IInv, TypeOK
    <3>4. OwnFifo(b)
      BY <1>3
    <3>5. bpc[b] = "log_reply" =>
            fd'[user_fifo[b]] \in {Opening(first_request[b]), Opened(first_request[b])}
      BY <3>1, <3>2, <3>3, <3>4, FilesDiffer DEF OwnFifo
    <3>6. bpc[b] \in {"write_log_reply", "write", "close"} =>
            fd'[user_fifo[b]] = Opened(first_request[b])
      BY <3>1, <3>2, <3>3, <3>4, FilesDiffer DEF OwnFifo
    <3>7. QED
      BY <1>1, <3>5, <3>6 DEF OwnFifo
  <2>3. QED
    BY <2>1, <2>2, UserFrame
<1>5. \A v \in Users : OwnReply(v)'
  <2> SUFFICES ASSUME NEW v \in Users
               PROVE  OwnReply(v)'
    OBVIOUS
  <2>1. CASE v = u
    BY <1>3, <2>1, UserKeepsOwnReply
  <2>2. CASE v # u
    <3>1. /\ upc'[v] = upc[v] /\ ret_user'[v] = ret_user[v] /\ ulog'[v] = ulog[v]
          /\ request_reply'[v] = request_reply[v] /\ content'[v] = content[v]
      BY <2>2, OthersStay
    <3>2. QED
      BY <1>1, <1>3, <3>1 DEF OwnReply, Done
  <2>3. QED
    BY <2>1, <2>2
<1>6. QED
  BY <1>4, <1>5

\* The read end of a user that waits was opened by the balcony that will answer it.
LEMMA UserKeepsAwaited ==
    ASSUME IInv, NEW u \in Users, UserNext(u)
    PROVE  Awaited'
<1>1. UNCHANGED <<server, misclosed, bpc, first_request, user_fifo>>
  BY UserFrame
<1>2. SUFFICES ASSUME server = "up", ~misclosed, NEW v \in Users,
                      upc'[v] = "read", reading'[v] = "open"
               PROVE  \/ content'[v] # <<>>
                      \/ \E b \in Balconies : first_request[b] = v /\ Answering(b)
  BY <1>1 DEF Awaited, Answering
<1>3. CASE v # u
  <2>1. upc[v] = "read" /\ reading[v] = "open" /\ content'[v] = content[v]
    BY <1>2, <1>3, OthersStay
  <2>2. QED
    BY <1>2, <2>1 DEF IInv, Awaited
<1>4. CASE v = u
  <2>1. OpenOwn(u)
    BY <1>2, <1>4, UserMoves
  <2>2. HasWriter(u) /\ upc[u] = "open_own"
    BY <1>2, <1>4, <2>1 DEF OpenOwn, IInv, TypeOK
  <2>3. PICK n \in Numbers : fd[n] = Opening(u) \/ fd[n] = Opened(u)
    BY <2>2 DEF HasWriter
  <2>4. fd[n] # Opened(u)
    BY <2>2 DEF IInv, Descriptors, HasOpened
  <2>5. PICK b \in Balconies : bpc[b] = "log_reply" /\ user_fifo[b] = n /\ first_request[b] = u
    BY <2>3, <2>4 DEF IInv, Descriptors
  <2>6. Answering(b)
    BY <2>5, ConstantsAre DEF Answering
  <2>7. QED
    BY <1>4, <2>5, <2>6
<1>5. QED
  BY <1>3, <1>4

\* A user fails on its read only when it has neither a reply nor a balcony to wait for.
LEMMA UserKeepsFailure ==
    ASSUME IInv, NEW u \in Users, UserNext(u)
    PROVE  FailureHasACause'
<1>1. UNCHANGED <<server, misclosed>>
  BY UserFrame
<1>2. SUFFICES ASSUME NEW v \in Users, upc'[v] = "failed", server = "up", ~misclosed
               PROVE  FALSE
  BY <1>1 DEF FailureHasACause
<1>3. upc[v] # "failed"
  BY <1>2 DEF IInv, FailureHasACause
<1>4. v = u /\ ReadEndOfFile(u)
  BY <1>2, <1>3, OthersStay, UserMoves
<1>5. upc[u] = "read" /\ reading[u] = "open" /\ content[u] = <<>> /\ ~HasWriter(u)
  BY <1>4 DEF ReadEndOfFile
<1>6. PICK b \in Balconies : first_request[b] = u /\ Answering(b)
  BY <1>2, <1>5 DEF IInv, Awaited
<1>7. user_fifo[b] \in Numbers /\ OwnFifo(b)
  BY <1>2, <1>6 DEF IInv, TypeOK, Owned, Answering
<1>8. fd[user_fifo[b]] \in {Opening(u), Opened(u)}
  BY <1>6, <1>7 DEF OwnFifo, Answering
<1>9. QED
  BY <1>5, <1>7, <1>8 DEF HasWriter

\* A step of a user keeps the invariant.
LEMMA UserKeeps ==
    ASSUME IInv, NEW u \in Users, UserNext(u)
    PROVE  IInv'
<1>1. TypeOK'
  BY UserTypes
<1>2. \A v \in Users : UserRecords(v)' /\ UserFiles(v)'
  BY UserKeepsUsers
<1>3. Requests' /\ ServerRecords' /\ Buffer' /\ Descriptors'
  BY UserKeepsRequests, UserKeepsServer, UserKeepsDescriptors
<1>4. NoReplyYet' /\ DownGaveUp'
  BY UserKeepsNoReply, UserKeepsGaveUp
<1>5. Owned' /\ Awaited' /\ FailureHasACause'
  BY UserKeepsOwned, UserKeepsAwaited, UserKeepsFailure
<1>6. QED
  BY <1>1, <1>2, <1>3, <1>4, <1>5 DEF IInv

-----------------------------------------------------------------------------
(* The descriptors of the server.                                          *)

\* A set of natural numbers has a least one.
LEMMA MinIs ==
    ASSUME NEW S, S \subseteq Nat, S # {}
    PROVE  Min(S) \in S
<1>1. PICK n \in S : \A m \in S : ~ (<<m, n>> \in OpToRel(<, Nat))
  BY NatLessThanWellFounded, WFMin
<1>2. \A m \in S : ~ (m < n)
  BY <1>1 DEF OpToRel
<1>3. \A m \in S : n <= m
  BY <1>2
<1>4. QED
  BY <1>3 DEF Min

UsedNumbers == {n \in Numbers : fd[n] \notin {Free, DummyEnd}}
UsingBalconies == {b \in Balconies : Using(b)}

\* Every descriptor belongs to a balcony of its own.
LEMMA NumbersHaveOwners ==
    ASSUME IInv
    PROVE  /\ IsFiniteSet(UsedNumbers) /\ IsFiniteSet(UsingBalconies)
           /\ Cardinality(UsedNumbers) <= Cardinality(UsingBalconies)
<1>1. \A n \in UsedNumbers : \E b \in UsingBalconies : user_fifo[b] = n
  <2> SUFFICES ASSUME NEW n \in UsedNumbers
               PROVE  \E b \in UsingBalconies : user_fifo[b] = n
    OBVIOUS
  <2>1. n \in Numbers /\ fd[n] \in Files /\ fd[n] \notin {Free, DummyEnd}
    BY DEF UsedNumbers, IInv, TypeOK
  <2>2. PICK v \in Users : fd[n] = Opening(v) \/ fd[n] = Opened(v)
    BY <2>1 DEF Files
  <2>3. \E b \in Balconies : Using(b) /\ user_fifo[b] = n
    BY <2>1, <2>2, ConstantsAre DEF IInv, Descriptors, Using
  <2>4. QED
    BY <2>3 DEF UsingBalconies
<1>2. IsFiniteSet(UsingBalconies)
  BY ConstantsAre, FS_Subset DEF UsingBalconies
<1> DEFINE owner == [n \in UsedNumbers |-> CHOOSE b \in UsingBalconies : user_fifo[b] = n]
<1>3. \A n \in UsedNumbers : owner[n] \in UsingBalconies /\ user_fifo[owner[n]] = n
  BY <1>1
<1>4. owner \in Injection(UsedNumbers, UsingBalconies)
  <2>1. owner \in [UsedNumbers -> UsingBalconies]
    BY <1>3
  <2>2. \A m, n \in UsedNumbers : owner[m] = owner[n] => m = n
    BY <1>3
  <2> HIDE DEF owner
  <2>3. QED
    BY <2>1, <2>2 DEF Injection, IsInjective
<1> HIDE DEF owner
<1>5. QED
  BY <1>2, <1>4, FS_Injection

\* There is a number left for a balcony that opens the FIFO of its user.
LEMMA FreeNumber ==
    ASSUME IInv, NEW b \in Balconies, bpc[b] = "open"
    PROVE  /\ Min({m \in Numbers : fd[m] = Free}) \in Numbers
           /\ fd[Min({m \in Numbers : fd[m] = Free})] = Free
<1> DEFINE S == {m \in Numbers : fd[m] = Free}
           N == Cardinality(Balconies)
<1>1. S # {}
  <2> SUFFICES ASSUME S = {}
               PROVE  FALSE
    OBVIOUS
  <2>1. N \in Nat /\ IsFiniteSet(Balconies)
    BY ConstantsAre
  <2>2. Numbers \subseteq UsedNumbers \cup {Dummy}
    <3>1. \A n \in Numbers : fd[n] = DummyEnd => n = Dummy
      BY DEF IInv, Descriptors
    <3>2. QED
      BY <3>1 DEF UsedNumbers
  <2>3. Cardinality(Numbers) = N + 1
    <3>1. 0 \in Int /\ N \in Int /\ ~(0 > N)
      BY <2>1
    <3>2. Cardinality(0 .. N) = N - 0 + 1
      BY <3>1, FS_Interval
    <3>3. QED
      BY <2>1, <3>2 DEF Numbers
  <2>4. UsingBalconies \subseteq Balconies \ {b}
    BY DEF UsingBalconies, Using
  <2>5. Cardinality(Balconies \ {b}) = N - 1 /\ IsFiniteSet(Balconies \ {b})
    BY <2>1, FS_RemoveElement
  <2>6. Cardinality(UsingBalconies) <= N - 1
    BY <2>4, <2>5, FS_Subset
  <2>7. IsFiniteSet(UsedNumbers) /\ Cardinality(UsedNumbers) <= Cardinality(UsingBalconies)
        /\ IsFiniteSet(UsingBalconies)
    BY NumbersHaveOwners
  <2>8. IsFiniteSet(UsedNumbers \cup {Dummy})
        /\ Cardinality(UsedNumbers \cup {Dummy}) <= Cardinality(UsedNumbers) + 1
    <3>1. Cardinality(UsedNumbers) \in Nat
      BY <2>7, FS_CardinalityType
    <3>2. QED
      BY <2>7, <3>1, FS_AddElement
  <2>9. Cardinality(Numbers) <= Cardinality(UsedNumbers \cup {Dummy})
    BY <2>2, <2>8, FS_Subset
  <2>10. /\ Cardinality(UsedNumbers) \in Nat /\ Cardinality(UsingBalconies) \in Nat
         /\ Cardinality(UsedNumbers \cup {Dummy}) \in Nat
    BY <2>7, <2>8, FS_CardinalityType
  <2> HIDE DEF N
  <2>11. QED
    BY <2>1, <2>3, <2>6, <2>7, <2>8, <2>9, <2>10
<1>2. S \subseteq Nat
  BY ConstantsAre DEF Numbers
<1>3. Min(S) \in S
  BY <1>1, <1>2, MinIs
<1>4. QED
  BY <1>3

-----------------------------------------------------------------------------
(* What the steps of a balcony do.                                         *)

\* A balcony changes nothing of the users but the ends of their FIFOs.
LEMMA BalconyFrame ==
    ASSUME IInv, NEW b \in Balconies, Serves(b)
    PROVE  /\ UNCHANGED <<upc, ret_user, armed, logged_request, logged_reply,
                           request_reply, ulog, linked>>
           /\ server = "up" /\ server' = server
           /\ reading' = reading \/ OpenUserFifo(b)
           /\ content' = content \/ WriteReply(b)
           /\ fd' = fd \/ ServeShutdown(b) \/ OpenUserFifo(b) \/ CloseUserFifo(b)
           /\ slog' = slog \/ WriteLogRequest(b) \/ WriteLogReply(b)
           /\ pending' = pending \/ TakeRequest(b)
           /\ misclosed' = misclosed \/ ServeShutdown(b)
<1>1. CASE TakeRequest(b)
  BY <1>1 DEF TakeRequest, BalconyAt, userVars, fifoVars, serverVars
<1>2. CASE SyncLogRequest(b)
  BY <1>2 DEF SyncLogRequest, BalconyAt, userVars, fifoVars, serverVars
<1>3. CASE WriteLogRequest(b)
  BY <1>3 DEF WriteLogRequest, BalconyAt, userVars, fifoVars, serverVars
<1>4. CASE ServeAccounts(b)
  BY <1>4 DEF ServeAccounts, BalconyAt, userVars, fifoVars, serverVars
<1>5. CASE ServeShutdown(b)
  BY <1>5 DEF ServeShutdown, BalconyAt, userVars, fifoVars, serverVars
<1>6. CASE OpenUserFifo(b)
  BY <1>6 DEF OpenUserFifo, BalconyAt, userVars, fifoVars, serverVars
<1>7. CASE OpenUserFifoFails(b)
  BY <1>7 DEF OpenUserFifoFails, BalconyAt, userVars, fifoVars, serverVars
<1>8. CASE SyncLogReply(b)
  BY <1>8 DEF SyncLogReply, BalconyAt, userVars, fifoVars, serverVars
<1>9. CASE WriteLogReply(b)
  BY <1>9 DEF WriteLogReply, BalconyAt, userVars, fifoVars, serverVars
<1>10. CASE WriteReply(b)
  BY <1>10 DEF WriteReply, BalconyAt, userVars, fifoVars, serverVars
<1>11. CASE CloseUserFifo(b)
  BY <1>11 DEF CloseUserFifo, BalconyAt, userVars, fifoVars, serverVars
<1>12. QED
  BY <1>1, <1>2, <1>3, <1>4, <1>5, <1>6, <1>7, <1>8, <1>9, <1>10, <1>11 DEF Serves

\* Nor anything of the other balconies.
LEMMA OtherBalconies ==
    ASSUME IInv, NEW b \in Balconies, Serves(b)
    PROVE  \A c \in Balconies \ {b} :
               /\ bpc'[c] = bpc[c] /\ first_request'[c] = first_request[c]
               /\ req_ret'[c] = req_ret[c] /\ user_fifo'[c] = user_fifo[c]
<1>0. UserTyped /\ ServerTyped /\ BalconyTyped
  BY Typed DEF IInv
<1>1. CASE TakeRequest(b)
  BY <1>0, <1>1 DEF TakeRequest, ServerTyped, BalconyTyped, Goto, BalconyAt, NextTurn,
     WriteLog, SyncLog, LockLogMutex, UnlockLogMutex, userVars, fifoVars,
     serverVars, logVars
<1>2. CASE SyncLogRequest(b)
  BY <1>0, <1>2 DEF SyncLogRequest, ServerTyped, BalconyTyped, Goto, BalconyAt,
     NextTurn, WriteLog, SyncLog, LockLogMutex, UnlockLogMutex, userVars, fifoVars,
     serverVars, logVars
<1>3. CASE WriteLogRequest(b)
  BY <1>0, <1>3 DEF WriteLogRequest, ServerTyped, BalconyTyped, Goto, BalconyAt,
     NextTurn, WriteLog, SyncLog, LockLogMutex, UnlockLogMutex, userVars, fifoVars,
     serverVars, logVars
<1>4. CASE ServeAccounts(b)
  BY <1>0, <1>4 DEF ServeAccounts, ServerTyped, BalconyTyped, Goto, BalconyAt,
     NextTurn, WriteLog, SyncLog, LockLogMutex, UnlockLogMutex, userVars, fifoVars,
     serverVars, logVars
<1>5. CASE ServeShutdown(b)
  BY <1>0, <1>5 DEF ServeShutdown, ServerTyped, BalconyTyped, Goto, BalconyAt,
     NextTurn, WriteLog, SyncLog, LockLogMutex, UnlockLogMutex, userVars, fifoVars,
     serverVars, logVars
<1>6. CASE OpenUserFifo(b)
  BY <1>0, <1>6 DEF OpenUserFifo, ServerTyped, BalconyTyped, Goto, BalconyAt,
     NextTurn, WriteLog, SyncLog, LockLogMutex, UnlockLogMutex, userVars, fifoVars,
     serverVars, logVars
<1>7. CASE OpenUserFifoFails(b)
  BY <1>0, <1>7 DEF OpenUserFifoFails, ServerTyped, BalconyTyped, Goto, BalconyAt,
     NextTurn, WriteLog, SyncLog, LockLogMutex, UnlockLogMutex, userVars, fifoVars,
     serverVars, logVars
<1>8. CASE SyncLogReply(b)
  BY <1>0, <1>8 DEF SyncLogReply, ServerTyped, BalconyTyped, Goto, BalconyAt,
     NextTurn, WriteLog, SyncLog, LockLogMutex, UnlockLogMutex, userVars, fifoVars,
     serverVars, logVars
<1>9. CASE WriteLogReply(b)
  BY <1>0, <1>9 DEF WriteLogReply, ServerTyped, BalconyTyped, Goto, BalconyAt,
     NextTurn, WriteLog, SyncLog, LockLogMutex, UnlockLogMutex, userVars, fifoVars,
     serverVars, logVars
<1>10. CASE WriteReply(b)
  BY <1>0, <1>10 DEF WriteReply, ServerTyped, BalconyTyped, Goto, BalconyAt, NextTurn,
     WriteLog, SyncLog, LockLogMutex, UnlockLogMutex, userVars, fifoVars,
     serverVars, logVars
<1>11. CASE CloseUserFifo(b)
  BY <1>0, <1>11 DEF CloseUserFifo, ServerTyped, BalconyTyped, Goto, BalconyAt,
     NextTurn, WriteLog, SyncLog, LockLogMutex, UnlockLogMutex, userVars, fifoVars,
     serverVars, logVars
<1>12. QED
  BY <1>1, <1>2, <1>3, <1>4, <1>5, <1>6, <1>7, <1>8, <1>9, <1>10, <1>11 DEF Serves

\* No step of a balcony breaks its own types.
LEMMA BalconyKeepsBalconyTypes ==
    ASSUME IInv, NEW b \in Balconies, Serves(b)
    PROVE  BalconyTyped'
<1>0. UserTyped /\ ServerTyped /\ BalconyTyped
  BY Typed DEF IInv
<1>a. first_request[b] \in Users \cup {Nobody} /\ req_ret[b] \in Codes \cup {NoCode}
  BY <1>0 DEF BalconyTyped
<1>b. bpc[b] # "idle" => first_request[b] \in Users
  BY <1>a DEF IInv, Requests
<1>1. CASE TakeRequest(b)
  BY <1>0, <1>1 DEF TakeRequest, Goto, BalconyAt, logVars, BalconyTyped, ServerTyped
<1>2. CASE SyncLogRequest(b)
  <2>1. RequestRecord \in Records
    BY <1>a, <1>2, RecordsDiffer DEF SyncLogRequest
  <2>2. [user |-> first_request[b], record |-> RequestRecord] \in
            [user : Users \cup {Nobody}, record : Records]
    BY <1>a, <2>1
  <2>3. QED
    BY <1>0, <1>2, <2>2 DEF SyncLogRequest, SyncLog, LockLogMutex, UnlockLogMutex, Goto, BalconyAt, NextTurn, logVars, BalconyTyped
<1>3. CASE WriteLogRequest(b)
  <2>1. log_mutex' = Nobody /\ log_buffer' = NoRecord /\ NoRecord \in
            [user : Users \cup {Nobody}, record : Records]
    BY <1>3, RecordsDiffer DEF WriteLogRequest, WriteLog, UnlockLogMutex, NoRecord
  <2>2. QED
    BY <1>0, <1>3, <2>1 DEF WriteLogRequest, Goto, BalconyAt, NextTurn, logVars, BalconyTyped
<1>4. CASE ServeAccounts(b)
  <2>1. \A r \in Results : r \in Codes
    BY ConstantsAre DEF Codes
  <2>2. QED
    BY <1>0, <1>4, <2>1 DEF ServeAccounts, Goto, BalconyAt, NextTurn, logVars, BalconyTyped
<1>5. CASE ServeShutdown(b)
  <2>1. {"RC_OK", "RC_OTHER", "RC_USR_DOWN"} \subseteq Codes
    BY DEF Codes
  <2>2. QED
    BY <1>0, <1>a, <1>5, <2>1 DEF ServeShutdown, Goto, BalconyAt, NextTurn, logVars, BalconyTyped
<1>6. CASE OpenUserFifo(b)
  <2>1. bpc[b] = "open"
    BY <1>6 DEF OpenUserFifo, BalconyAt
  <2>2. Min({m \in Numbers : fd[m] = Free}) \in Numbers
    BY <2>1, FreeNumber
  <2>3. user_fifo' \in [Balconies -> Numbers \cup {BadFd}]
    BY <1>0, <1>6, <2>2 DEF OpenUserFifo, BalconyTyped
  <2>4. QED
    BY <1>0, <1>6, <2>3 DEF OpenUserFifo, Goto, BalconyAt, NextTurn, logVars, BalconyTyped
<1>7. CASE OpenUserFifoFails(b)
  <2>1. {"RC_OK", "RC_OTHER", "RC_USR_DOWN"} \subseteq Codes
    BY DEF Codes
  <2>2. QED
    BY <1>0, <1>a, <1>7, <2>1 DEF OpenUserFifoFails, Goto, BalconyAt, NextTurn, logVars, BalconyTyped
<1>8. CASE SyncLogReply(b)
  <2>1. ReplyRecord(req_ret[b]) \in Records
    BY <1>a, <1>8, RecordsDiffer DEF SyncLogReply, BalconyAt, IInv, Requests, Late
  <2>2. [user |-> first_request[b], record |-> ReplyRecord(req_ret[b])] \in
            [user : Users \cup {Nobody}, record : Records]
    BY <1>a, <2>1
  <2>3. QED
    BY <1>0, <1>8, <2>2 DEF SyncLogReply, SyncLog, LockLogMutex, UnlockLogMutex, Goto, BalconyAt, NextTurn, logVars, BalconyTyped
<1>9. CASE WriteLogReply(b)
  <2>1. log_mutex' = Nobody /\ log_buffer' = NoRecord /\ NoRecord \in
            [user : Users \cup {Nobody}, record : Records]
    BY <1>9, RecordsDiffer DEF WriteLogReply, WriteLog, UnlockLogMutex, NoRecord
  <2>2. QED
    BY <1>0, <1>9, <2>1 DEF WriteLogReply, Goto, BalconyAt, NextTurn, logVars, BalconyTyped
<1>10. CASE WriteReply(b)
  BY <1>0, <1>10 DEF WriteReply, Goto, BalconyAt, NextTurn, logVars, BalconyTyped
<1>11. CASE CloseUserFifo(b)
  BY <1>0, <1>11 DEF CloseUserFifo, Goto, BalconyAt, NextTurn, logVars, BalconyTyped
<1>12. QED
  BY <1>1, <1>2, <1>3, <1>4, <1>5, <1>6, <1>7, <1>8, <1>9, <1>10, <1>11 DEF Serves

\* Nor those of the server; the number that an open takes is one of the table.
LEMMA BalconyKeepsServerTypes ==
    ASSUME IInv, NEW b \in Balconies, Serves(b)
    PROVE  ServerTyped'
<1>0. UserTyped /\ ServerTyped /\ BalconyTyped
  BY Typed DEF IInv
<1>a. first_request[b] \in Users \cup {Nobody} /\ req_ret[b] \in Codes \cup {NoCode}
  BY <1>0 DEF BalconyTyped
<1>b. bpc[b] # "idle" => first_request[b] \in Users
  BY <1>a DEF IInv, Requests
<1>1. CASE TakeRequest(b)
  BY <1>0, <1>1 DEF TakeRequest, Goto, BalconyAt, serverVars, ServerTyped
<1>2. CASE SyncLogRequest(b)
  BY <1>0, <1>2 DEF SyncLogRequest, Goto, BalconyAt, serverVars, ServerTyped
<1>3. CASE WriteLogRequest(b)
  <2>1. slog' = [v \in Users |-> IF log_buffer.user = v
                                THEN Append(slog[v], log_buffer.record) ELSE slog[v]]
    BY <1>3 DEF WriteLogRequest, WriteLog
  <2>2. log_buffer.record \in Records
    BY <1>0 DEF BalconyTyped
  <2>3. \A v \in Users : slog[v] \in Seq(Records)
    BY <1>0 DEF ServerTyped
  <2>4. \A v \in Users : Append(slog[v], log_buffer.record) \in Seq(Records)
    BY <2>2, <2>3, SequencesAre
  <2>5. slog' \in [Users -> Seq(Records)]
    BY <2>1, <2>3, <2>4
  <2>6. QED
    BY <1>0, <1>3, <2>5 DEF WriteLogRequest, ServerTyped
<1>4. CASE ServeAccounts(b)
  BY <1>0, <1>4 DEF ServeAccounts, Goto, BalconyAt, serverVars, ServerTyped
<1>5. CASE ServeShutdown(b)
  <2>1. fd' \in [Numbers -> Files]
    BY <1>0, <1>5 DEF ServeShutdown, ServerTyped, Files
  <2>2. misclosed' \in BOOLEAN /\ accepting' \in BOOLEAN
    BY <1>0, <1>5 DEF ServeShutdown, ServerTyped
  <2>3. QED
    BY <1>0, <1>5, <2>1, <2>2 DEF ServeShutdown, ServerTyped
<1>6. CASE OpenUserFifo(b)
  <2>1. first_request[b] \in Users
    BY <1>b, <1>6 DEF OpenUserFifo, BalconyAt
  <2>2. Opening(first_request[b]) \in Files /\ Opened(first_request[b]) \in Files
    BY <2>1 DEF Files
  <2>3. fd' \in [Numbers -> Files]
    BY <1>0, <1>6, <2>2 DEF OpenUserFifo, ServerTyped
  <2>4. QED
    BY <1>0, <1>6, <2>3 DEF OpenUserFifo, serverVars, ServerTyped
<1>7. CASE OpenUserFifoFails(b)
  BY <1>0, <1>7 DEF OpenUserFifoFails, Goto, BalconyAt, serverVars, ServerTyped
<1>8. CASE SyncLogReply(b)
  BY <1>0, <1>8 DEF SyncLogReply, Goto, BalconyAt, serverVars, ServerTyped
<1>9. CASE WriteLogReply(b)
  <2>1. slog' = [v \in Users |-> IF log_buffer.user = v
                                THEN Append(slog[v], log_buffer.record) ELSE slog[v]]
    BY <1>9 DEF WriteLogReply, WriteLog
  <2>2. log_buffer.record \in Records
    BY <1>0 DEF BalconyTyped
  <2>3. \A v \in Users : slog[v] \in Seq(Records)
    BY <1>0 DEF ServerTyped
  <2>4. \A v \in Users : Append(slog[v], log_buffer.record) \in Seq(Records)
    BY <2>2, <2>3, SequencesAre
  <2>5. slog' \in [Users -> Seq(Records)]
    BY <2>1, <2>3, <2>4
  <2>6. QED
    BY <1>0, <1>9, <2>5 DEF WriteLogReply, ServerTyped
<1>10. CASE WriteReply(b)
  BY <1>0, <1>10 DEF WriteReply, Goto, BalconyAt, serverVars, ServerTyped
<1>11. CASE CloseUserFifo(b)
  <2>1. fd' \in [Numbers -> Files]
    BY <1>0, <1>11 DEF CloseUserFifo, ServerTyped, Files
  <2>3. QED
    BY <1>0, <1>11, <2>1 DEF CloseUserFifo, serverVars, ServerTyped
<1>12. QED
  BY <1>1, <1>2, <1>3, <1>4, <1>5, <1>6, <1>7, <1>8, <1>9, <1>10, <1>11 DEF Serves

\* Nor those of the users, which it leaves alone but for their FIFOs.
LEMMA BalconyTypes ==
    ASSUME IInv, NEW b \in Balconies, Serves(b)
    PROVE  TypeOK'
<1>0. UserTyped /\ ServerTyped /\ BalconyTyped
  BY Typed DEF IInv
<1>1. reading' \in [Users -> {"closed", "opening", "open"}]
  <2>1. CASE OpenUserFifo(b)
    BY <1>0, <2>1 DEF OpenUserFifo, UserTyped
  <2>2. CASE reading' = reading
    BY <1>0, <2>2 DEF UserTyped
  <2>3. QED
    BY <2>1, <2>2, BalconyFrame
<1>2. content' \in [Users -> Seq(Replies)]
  <2>1. CASE WriteReply(b)
    <3>1. Reply(b) \in Replies
      BY <1>0 DEF Reply, Replies, BalconyTyped
    <3>2. \A v \in Users : content[v] \in Seq(Replies)
      BY <1>0 DEF UserTyped
    <3>3. \A v \in Users : Append(content[v], Reply(b)) \in Seq(Replies)
      BY <3>1, <3>2, SequencesAre
    <3>4. QED
      BY <2>1, <3>2, <3>3 DEF WriteReply
  <2>2. CASE content' = content
    BY <1>0, <2>2 DEF UserTyped
  <2>3. QED
    BY <2>1, <2>2, BalconyFrame
<1>3. UserTyped'
  BY <1>0, <1>1, <1>2, BalconyFrame DEF UserTyped
<1>4. QED
  BY <1>3, BalconyKeepsBalconyTypes, BalconyKeepsServerTypes, TypedNext

-----------------------------------------------------------------------------
(* A step of a balcony keeps the invariant.                                *)

\* Where a balcony goes, and what it takes along.
LEMMA BalconyMoves ==
    ASSUME IInv, NEW b \in Balconies, Serves(b)
    PROVE  /\ first_request'[b] = Nobody <=> bpc'[b] = "idle"
           /\ \/ pending' = pending /\ first_request'[b] \in {Nobody, first_request[b]}
              \/ /\ first_request'[b] \in pending
                 /\ pending' = pending \ {first_request'[b]}
           /\ bpc'[b] \in {"open"} \cup Late => req_ret'[b] \in Codes
           /\ bpc'[b] \in {"write", "close"} => user_fifo'[b] # BadFd
           /\ bpc'[b] \in Early => TakeRequest(b) \/ bpc[b] \in Early
           /\ bpc'[b] = "idle" => bpc[b] \in Late
           /\ TakeRequest(b) \/ first_request[b] \in Users
           /\ first_request'[b] # Nobody /\ ~TakeRequest(b) => first_request'[b] = first_request[b]
<1>0. UserTyped /\ ServerTyped /\ BalconyTyped
  BY Typed DEF IInv
<1>a. /\ Requests /\ NoCode \notin Codes /\ BadFd \notin Numbers /\ Nobody \notin Users
      /\ \A r \in Results : r \in Codes /\ r # "RC_USR_DOWN"
  BY ConstantsAre DEF IInv, Codes
<1>1. CASE TakeRequest(b)
  BY <1>0, <1>a, <1>1 DEF TakeRequest, Requests, Early, Late, ServerTyped, BalconyTyped,
     Goto, BalconyAt, NextTurn, serverVars
<1>2. CASE SyncLogRequest(b)
  BY <1>0, <1>a, <1>2 DEF SyncLogRequest, Requests, Early, Late, ServerTyped,
     BalconyTyped, Goto, BalconyAt, NextTurn, serverVars
<1>3. CASE WriteLogRequest(b)
  BY <1>0, <1>a, <1>3 DEF WriteLogRequest, Requests, Early, Late, ServerTyped,
     BalconyTyped, Goto, BalconyAt, NextTurn, serverVars
<1>4. CASE ServeAccounts(b)
  BY <1>0, <1>a, <1>4 DEF ServeAccounts, Requests, Early, Late, ServerTyped,
     BalconyTyped, Goto, BalconyAt, NextTurn, serverVars
<1>5. CASE ServeShutdown(b)
  BY <1>0, <1>a, <1>5 DEF ServeShutdown, Requests, Early, Late, Codes, ServerTyped,
     BalconyTyped, Goto, BalconyAt, NextTurn, serverVars
<1>6. CASE OpenUserFifo(b)
  <2>1. bpc[b] = "open"
    BY <1>6 DEF OpenUserFifo, BalconyAt
  <2>2. Min({m \in Numbers : fd[m] = Free}) \in Numbers
    BY <2>1, FreeNumber
  <2>3. user_fifo'[b] # BadFd
    BY <1>0, <1>a, <1>6, <2>2 DEF OpenUserFifo, BalconyTyped
  <2>4. QED
    BY <1>0, <1>a, <1>6, <2>3 DEF OpenUserFifo, Requests, Early, Late, ServerTyped, BalconyTyped, Goto, BalconyAt, NextTurn, serverVars
<1>7. CASE OpenUserFifoFails(b)
  BY <1>0, <1>a, <1>7 DEF OpenUserFifoFails, Requests, Early, Late, Codes, ServerTyped,
     BalconyTyped, Goto, BalconyAt, NextTurn, serverVars
<1>8. CASE SyncLogReply(b)
  BY <1>0, <1>a, <1>8 DEF SyncLogReply, Requests, Early, Late, ServerTyped, BalconyTyped,
     Goto, BalconyAt, NextTurn, serverVars
<1>9. CASE WriteLogReply(b)
  BY <1>0, <1>a, <1>9 DEF WriteLogReply, Requests, Early, Late, ServerTyped,
     BalconyTyped, Goto, BalconyAt, NextTurn, serverVars
<1>10. CASE WriteReply(b)
  BY <1>0, <1>a, <1>10 DEF WriteReply, Requests, Early, Late, ServerTyped, BalconyTyped,
     Goto, BalconyAt, NextTurn, serverVars
<1>11. CASE CloseUserFifo(b)
  BY <1>0, <1>a, <1>11 DEF CloseUserFifo, Requests, Early, Late, ServerTyped,
     BalconyTyped, Goto, BalconyAt, NextTurn, serverVars
<1>12. QED
  BY <1>1, <1>2, <1>3, <1>4, <1>5, <1>6, <1>7, <1>8, <1>9, <1>10, <1>11 DEF Serves

\* A balcony writes in the FIFO of a user, and touches nothing else that the user has.
LEMMA BalconyKeepsUsers ==
    ASSUME IInv, NEW b \in Balconies, Serves(b)
    PROVE  \A v \in Users : UserRecords(v)' /\ UserFiles(v)'
<1> SUFFICES ASSUME NEW v \in Users
             PROVE  UserRecords(v)' /\ UserFiles(v)'
  OBVIOUS
<1>0. UserTyped /\ BalconyTyped /\ UserRecords(v) /\ UserFiles(v)
  BY Typed DEF IInv
<1>1. UNCHANGED <<upc, ret_user, armed, logged_request, logged_reply,
                  request_reply, ulog, linked>>
  BY BalconyFrame
<1>2. UserRecords(v)'
  BY <1>0, <1>1 DEF UserRecords
<1>3. reading'[v] # "closed" => reading[v] # "closed"
  <2>1. CASE OpenUserFifo(b)
    BY <1>0, <2>1 DEF OpenUserFifo, UserTyped
  <2>2. QED
    BY <2>1, BalconyFrame
<1>4. \A i \in 1 .. Len(content'[v]) : content'[v][i].ret_code \in Codes
  <2>1. CASE content'[v] = content[v]
    BY <1>0, <2>1 DEF UserFiles
  <2>2. CASE WriteReply(b) /\ content'[v] = Append(content[v], Reply(b))
    <3>1. Reply(b).ret_code \in Codes
      BY <2>2 DEF WriteReply, BalconyAt, Reply, IInv, Requests, Late
    <3>2. content[v] \in Seq(Replies) /\ Reply(b) \in Replies
      BY <1>0 DEF UserTyped, BalconyTyped, Reply, Replies
    <3>3. PICK s, t : s = content[v] /\ t = Append(s, Reply(b))
      OBVIOUS
    <3>4. /\ Len(s) \in Nat /\ Len(t) = Len(s) + 1 /\ t[Len(s) + 1] = Reply(b)
          /\ \A i \in 1 .. Len(s) : t[i] = s[i]
      BY <3>2, <3>3, AppendProperties, LenProperties
    <3>5. \A i \in 1 .. Len(s) : s[i].ret_code \in Codes
      BY <1>0, <3>3 DEF UserFiles
    <3>6. \A i \in 1 .. Len(t) : t[i].ret_code \in Codes
      BY <3>1, <3>4, <3>5
    <3>7. QED
      BY <2>2, <3>3, <3>6
  <2>3. QED
    BY <2>1, <2>2, BalconyFrame DEF WriteReply
<1>5. UserFiles(v)'
  BY <1>0, <1>1, <1>3, <1>4 DEF UserFiles
<1>6. QED
  BY <1>2, <1>5

\* A balcony takes a request that no other one has, and leaves it when it is done.
LEMMA BalconyKeepsRequests ==
    ASSUME IInv, NEW b \in Balconies, Serves(b)
    PROVE  Requests'
<1>0. BalconyTyped /\ ServerTyped /\ Requests /\ Nobody \notin Users
  BY Typed, ConstantsAre DEF IInv
<1>1. UNCHANGED <<upc, ret_user, linked>>
  BY BalconyFrame
<1>2. \A c \in Balconies \ {b} :
        /\ bpc'[c] = bpc[c] /\ first_request'[c] = first_request[c]
        /\ req_ret'[c] = req_ret[c] /\ user_fifo'[c] = user_fifo[c]
  BY OtherBalconies
<1>3. /\ first_request'[b] = Nobody <=> bpc'[b] = "idle"
      /\ \/ pending' = pending /\ first_request'[b] \in {Nobody, first_request[b]}
         \/ /\ first_request'[b] \in pending
            /\ pending' = pending \ {first_request'[b]}
      /\ bpc'[b] \in {"open"} \cup Late => req_ret'[b] \in Codes
      /\ bpc'[b] \in {"write", "close"} => user_fifo'[b] # BadFd
  BY BalconyMoves
<1>4. pending \subseteq Users /\ Nobody \notin pending
  BY <1>0 DEF ServerTyped
<1>5. \A v \in Users : Sent(v)' => Sent(v)
  BY <1>0, <1>2, <1>3 DEF Sent
<1>6. \A c \in Balconies : first_request'[c] = Nobody <=> bpc'[c] = "idle"
  BY <1>0, <1>2, <1>3 DEF Requests
<1>7. \A c \in Balconies : first_request'[c] \notin pending'
  BY <1>0, <1>2, <1>3, <1>4 DEF Requests
<1>8. \A c \in Balconies \ {b} : bpc'[c] # "idle" => first_request'[c] # first_request'[b]
  BY <1>0, <1>2, <1>3 DEF Requests
<1>9. \A c, d \in Balconies : first_request'[c] = first_request'[d] /\ bpc'[c] # "idle" => c = d
  <2> SUFFICES ASSUME NEW c \in Balconies, NEW d \in Balconies, c # d,
                      first_request'[c] = first_request'[d], bpc'[c] # "idle"
               PROVE  FALSE
    OBVIOUS
  <2>1. bpc'[d] # "idle"
    BY <1>6
  <2>2. CASE c # b /\ d # b
    BY <1>0, <1>2, <2>2 DEF Requests
  <2>3. CASE c = b \/ d = b
    BY <1>8, <2>1, <2>3
  <2>4. QED
    BY <2>2, <2>3
<1>10. \A v \in Users : upc'[v] \in Unsent \/ ret_user'[v] = "RC_SRV_DOWN" => ~Sent(v)'
  BY <1>0, <1>1, <1>5 DEF Requests
<1>11. \A v \in Users : Sent(v)' => linked'[v] \/ upc'[v] = "left"
  BY <1>0, <1>1, <1>5 DEF Requests
<1>12. \A c \in Balconies : bpc'[c] \in {"open"} \cup Late => req_ret'[c] \in Codes
  BY <1>0, <1>2, <1>3 DEF Requests
<1>13. \A c \in Balconies : bpc'[c] \in {"write", "close"} => user_fifo'[c] # BadFd
  BY <1>0, <1>2, <1>3 DEF Requests
<1>14. QED
  BY <1>6, <1>7, <1>9, <1>10, <1>11, <1>12, <1>13 DEF Requests

\* What the server log says after a step of balcony b.
LEMMA Written ==
    ASSUME IInv, NEW b \in Balconies, Serves(b)
    PROVE  /\ ~WriteLogRequest(b) /\ ~WriteLogReply(b) => slog' = slog
           /\ WriteLogRequest(b) =>
              /\ first_request[b] \in Users
              /\ slog[first_request[b]] = <<>>
              /\ slog'[first_request[b]] = <<RequestRecord>>
              /\ \A v \in Users : v # first_request[b] => slog'[v] = slog[v]
           /\ WriteLogReply(b) =>
              /\ first_request[b] \in Users
              /\ slog[first_request[b]] = <<RequestRecord>>
              /\ slog'[first_request[b]] = <<RequestRecord, ReplyRecord(req_ret[b])>>
              /\ \A v \in Users : v # first_request[b] => slog'[v] = slog[v]
<1>1. CASE WriteLogRequest(b)
  <2>1. bpc[b] = "write_log_request"
    BY <1>1 DEF WriteLogRequest, BalconyAt
  <2>2. first_request[b] \in Users
    BY <2>1 DEF IInv, TypeOK, Requests
  <2>3. log_buffer.user = first_request[b] /\ log_buffer.record = RequestRecord
    BY <2>1 DEF IInv, Buffer
  <2>4. slog[first_request[b]] = <<>>
    BY <2>1 DEF IInv, ServerRecords
  <2>5. slog' = [v \in Users |-> IF log_buffer.user = v
                                 THEN Append(slog[v], log_buffer.record) ELSE slog[v]]
    BY <1>1 DEF WriteLogRequest, WriteLog
  <2>6. slog'[first_request[b]] = Append(<<>>, RequestRecord)
    BY <2>2, <2>3, <2>4, <2>5
  <2>7. \A v \in Users : v # first_request[b] => slog'[v] = slog[v]
    BY <2>3, <2>5
  <2>8. ~WriteLogReply(b)
    BY <2>1 DEF WriteLogReply, BalconyAt
  <2>9. QED
    BY <1>1, <2>2, <2>4, <2>6, <2>7, <2>8, SmallLogs
<1>2. CASE WriteLogReply(b)
  <2>1. bpc[b] = "write_log_reply"
    BY <1>2 DEF WriteLogReply, BalconyAt
  <2>2. first_request[b] \in Users
    BY <2>1 DEF IInv, TypeOK, Requests
  <2>3. log_buffer.user = first_request[b] /\ log_buffer.record = ReplyRecord(req_ret[b])
    BY <2>1 DEF IInv, Buffer
  <2>4. slog[first_request[b]] = <<RequestRecord>>
    BY <2>1 DEF IInv, ServerRecords
  <2>5. slog' = [v \in Users |-> IF log_buffer.user = v
                                 THEN Append(slog[v], log_buffer.record) ELSE slog[v]]
    BY <1>2 DEF WriteLogReply, WriteLog
  <2>6. slog'[first_request[b]] = Append(<<RequestRecord>>, ReplyRecord(req_ret[b]))
    BY <2>2, <2>3, <2>4, <2>5
  <2>7. \A v \in Users : v # first_request[b] => slog'[v] = slog[v]
    BY <2>3, <2>5
  <2>8. ~WriteLogRequest(b)
    BY <2>1 DEF WriteLogRequest, BalconyAt
  <2>9. QED
    BY <1>2, <2>2, <2>4, <2>6, <2>7, <2>8, SmallLogs
<1>3. QED
  BY <1>1, <1>2, BalconyFrame

\* What is in the server log about the request of the balcony that moves.
LEMMA BalconyKeepsOwnRecords ==
    ASSUME IInv, NEW b \in Balconies, Serves(b)
    PROVE  /\ bpc'[b] \in {"log_request", "write_log_request"} => slog'[first_request'[b]] = <<>>
           /\ bpc'[b] \in {"serve", "open", "log_reply", "write_log_reply"} =>
                slog'[first_request'[b]] = <<RequestRecord>>
           /\ bpc'[b] \in {"write", "close"} =>
                slog'[first_request'[b]] = <<RequestRecord, ReplyRecord(req_ret'[b])>>
<1>0. BalconyTyped /\ ServerTyped /\ ServerRecords
  BY Typed DEF IInv
<1>a. /\ bpc[b] \in {"log_request", "write_log_request"} => slog[first_request[b]] = <<>>
      /\ bpc[b] \in {"serve", "open", "log_reply", "write_log_reply"} =>
            slog[first_request[b]] = <<RequestRecord>>
      /\ bpc[b] \in {"write", "close"} =>
            slog[first_request[b]] = <<RequestRecord, ReplyRecord(req_ret[b])>>
  BY <1>0 DEF ServerRecords
<1>1. CASE TakeRequest(b)
  <2>1. first_request'[b] \in pending /\ pending \subseteq Users /\ slog' = slog
    BY <1>0, <1>a, <1>1 DEF TakeRequest, BalconyTyped, ServerTyped
  <2>2. slog[first_request'[b]] = <<>>
    BY <1>0, <2>1 DEF ServerRecords
  <2>3. QED
    BY <1>0, <1>a, <1>1, <2>1, <2>2 DEF TakeRequest, Goto, BalconyTyped
<1>2. CASE SyncLogRequest(b)
  BY <1>0, <1>a, <1>2 DEF SyncLogRequest, Goto, BalconyAt, BalconyTyped, serverVars
<1>3. CASE WriteLogRequest(b)
  <2>1. slog'[first_request[b]] = <<RequestRecord>>
    BY <1>3, Written
  <2>2. bpc'[b] = "serve" /\ first_request' = first_request
    BY <1>0, <1>a, <1>3 DEF WriteLogRequest, Goto, BalconyTyped
  <2>3. QED
    BY <2>1, <2>2
<1>4. CASE ServeAccounts(b)
  BY <1>0, <1>a, <1>4 DEF ServeAccounts, Goto, BalconyAt, BalconyTyped, serverVars
<1>5. CASE ServeShutdown(b)
  BY <1>0, <1>a, <1>5 DEF ServeShutdown, Goto, BalconyAt, BalconyTyped, serverVars
<1>6. CASE OpenUserFifo(b)
  BY <1>0, <1>a, <1>6 DEF OpenUserFifo, Goto, BalconyAt, BalconyTyped, serverVars
<1>7. CASE OpenUserFifoFails(b)
  BY <1>0, <1>a, <1>7 DEF OpenUserFifoFails, Goto, BalconyAt, BalconyTyped, serverVars
<1>8. CASE SyncLogReply(b)
  BY <1>0, <1>a, <1>8 DEF SyncLogReply, Goto, BalconyAt, BalconyTyped, serverVars
<1>9. CASE WriteLogReply(b)
  <2>1. slog'[first_request[b]] = <<RequestRecord, ReplyRecord(req_ret[b])>>
    BY <1>9, Written
  <2>2. \/ bpc'[b] = "write" /\ first_request' = first_request /\ req_ret' = req_ret
        \/ bpc'[b] = "idle"
    BY <1>0, <1>a, <1>9 DEF WriteLogReply, Goto, NextTurn, BalconyTyped
  <2>3. QED
    BY <2>1, <2>2
<1>10. CASE WriteReply(b)
  BY <1>0, <1>a, <1>10 DEF WriteReply, Goto, BalconyAt, BalconyTyped, serverVars
<1>11. CASE CloseUserFifo(b)
  BY <1>0, <1>a, <1>11 DEF CloseUserFifo, NextTurn, Goto, BalconyTyped
<1>12. QED
  BY <1>1, <1>2, <1>3, <1>4, <1>5, <1>6, <1>7, <1>8, <1>9, <1>10, <1>11 DEF Serves

\* The records about the requests of others stay.
LEMMA BalconyKeepsRecords ==
    ASSUME IInv, NEW b \in Balconies, Serves(b)
    PROVE  ServerRecords'
<1>0. /\ BalconyTyped /\ ServerTyped /\ ServerRecords /\ Requests /\ Nobody \notin Users
      /\ upc' = upc
  BY Typed, ConstantsAre, BalconyFrame DEF IInv
<1>1. \A c \in Balconies \ {b} :
        /\ bpc'[c] = bpc[c] /\ first_request'[c] = first_request[c]
        /\ req_ret'[c] = req_ret[c]
  BY OtherBalconies
<1>2. pending' \subseteq pending
  BY BalconyMoves
<1>3. \A v \in Users :
        \/ slog'[v] \in {<<>>, <<RequestRecord>>}
        \/ \E c \in Codes : slog'[v] = <<RequestRecord, ReplyRecord(c)>>
  <2>1. CASE slog' = slog
    BY <1>0, <2>1 DEF ServerRecords
  <2>2. CASE WriteLogRequest(b)
    <3>1. \A v \in Users : slog'[v] = slog[v] \/ slog'[v] = <<RequestRecord>>
      BY <2>2, Written
    <3>2. QED
      BY <1>0, <3>1 DEF ServerRecords
  <2>3. CASE WriteLogReply(b)
    <3>1. \A v \in Users : slog'[v] = slog[v] \/ slog'[v] = <<RequestRecord, ReplyRecord(req_ret[b])>>
      BY <2>3, Written
    <3>2. req_ret[b] \in Codes
      BY <1>0, <2>3 DEF WriteLogReply, BalconyAt, Requests, Late
    <3>3. QED
      BY <1>0, <3>1, <3>2 DEF ServerRecords
  <2>4. QED
    BY <2>1, <2>2, <2>3, BalconyFrame
<1>4. \A v \in Users : upc[v] \in Unsent \/ v \in pending' => slog'[v] = <<>>
  <2> SUFFICES ASSUME NEW v \in Users, upc[v] \in Unsent \/ v \in pending'
               PROVE  slog'[v] = <<>>
    OBVIOUS
  <2>1. slog[v] = <<>>
    BY <1>0, <1>2 DEF ServerRecords
  <2>2. v # first_request[b]
    BY <1>0, <1>2 DEF Requests, Sent
  <2>3. QED
    BY <2>1, <2>2, Written
<1>5. \A c \in Balconies \ {b} :
        /\ bpc[c] \in {"log_request", "write_log_request"} => slog'[first_request[c]] = <<>>
        /\ bpc[c] \in {"serve", "open", "log_reply", "write_log_reply"} =>
            slog'[first_request[c]] = <<RequestRecord>>
        /\ bpc[c] \in {"write", "close"} =>
            slog'[first_request[c]] = <<RequestRecord, ReplyRecord(req_ret[c])>>
  <2> SUFFICES ASSUME NEW c \in Balconies, c # b, bpc[c] # "idle"
               PROVE  slog'[first_request[c]] = slog[first_request[c]]
    BY <1>0 DEF ServerRecords
  <2>1. first_request[c] \in Users /\ first_request[c] # first_request[b]
    BY <1>0 DEF Requests, BalconyTyped
  <2>2. QED
    BY <2>1, Written
<1>6. /\ bpc'[b] \in {"log_request", "write_log_request"} => slog'[first_request'[b]] = <<>>
      /\ bpc'[b] \in {"serve", "open", "log_reply", "write_log_reply"} =>
            slog'[first_request'[b]] = <<RequestRecord>>
      /\ bpc'[b] \in {"write", "close"} =>
            slog'[first_request'[b]] = <<RequestRecord, ReplyRecord(req_ret'[b])>>
  BY BalconyKeepsOwnRecords
<1>7. \A c \in Balconies :
        /\ bpc'[c] \in {"log_request", "write_log_request"} => slog'[first_request'[c]] = <<>>
        /\ bpc'[c] \in {"serve", "open", "log_reply", "write_log_reply"} =>
            slog'[first_request'[c]] = <<RequestRecord>>
        /\ bpc'[c] \in {"write", "close"} =>
            slog'[first_request'[c]] = <<RequestRecord, ReplyRecord(req_ret'[c])>>
  BY <1>1, <1>5, <1>6
<1>8. QED
  BY <1>0, <1>3, <1>4, <1>7 DEF ServerRecords

\* The shared buffer and its mutex, seen by the balcony that moves.
LEMMA BalconyKeepsOwnBuffer ==
    ASSUME IInv, NEW b \in Balconies, Serves(b)
    PROVE  /\ log_mutex' = b <=> bpc'[b] \in {"write_log_request", "write_log_reply"}
           /\ bpc'[b] = "write_log_request" =>
                log_buffer' = [user |-> first_request'[b], record |-> RequestRecord]
           /\ bpc'[b] = "write_log_reply" =>
                log_buffer' = [user |-> first_request'[b], record |-> ReplyRecord(req_ret'[b])]
           /\ \/ log_mutex' = log_mutex /\ log_buffer' = log_buffer
              \/ log_mutex \in {b, Nobody} /\ log_mutex' \in {b, Nobody}
<1>0. /\ BalconyTyped /\ Buffer /\ Nobody \notin Balconies
  BY Typed, ConstantsAre DEF IInv
<1>a. /\ log_mutex = b <=> bpc[b] \in {"write_log_request", "write_log_reply"}
      /\ bpc[b] = "write_log_request" =>
            log_buffer = [user |-> first_request[b], record |-> RequestRecord]
      /\ bpc[b] = "write_log_reply" =>
            log_buffer = [user |-> first_request[b], record |-> ReplyRecord(req_ret[b])]
  BY <1>0 DEF Buffer
<1>1. CASE TakeRequest(b)
  BY <1>0, <1>a, <1>1 DEF TakeRequest, Goto, BalconyAt, BalconyTyped, NextTurn, logVars,
     SyncLog, WriteLog, LockLogMutex, UnlockLogMutex
<1>2. CASE SyncLogRequest(b)
  BY <1>0, <1>a, <1>2 DEF SyncLogRequest, Goto, BalconyAt, BalconyTyped, NextTurn, logVars,
     SyncLog, WriteLog, LockLogMutex, UnlockLogMutex
<1>3. CASE WriteLogRequest(b)
  BY <1>0, <1>a, <1>3 DEF WriteLogRequest, Goto, BalconyAt, BalconyTyped, NextTurn, logVars,
     SyncLog, WriteLog, LockLogMutex, UnlockLogMutex
<1>4. CASE ServeAccounts(b)
  BY <1>0, <1>a, <1>4 DEF ServeAccounts, Goto, BalconyAt, BalconyTyped, NextTurn, logVars,
     SyncLog, WriteLog, LockLogMutex, UnlockLogMutex
<1>5. CASE ServeShutdown(b)
  BY <1>0, <1>a, <1>5 DEF ServeShutdown, Goto, BalconyAt, BalconyTyped, NextTurn, logVars,
     SyncLog, WriteLog, LockLogMutex, UnlockLogMutex
<1>6. CASE OpenUserFifo(b)
  BY <1>0, <1>a, <1>6 DEF OpenUserFifo, Goto, BalconyAt, BalconyTyped, NextTurn, logVars,
     SyncLog, WriteLog, LockLogMutex, UnlockLogMutex
<1>7. CASE OpenUserFifoFails(b)
  BY <1>0, <1>a, <1>7 DEF OpenUserFifoFails, Goto, BalconyAt, BalconyTyped, NextTurn,
     logVars, SyncLog, WriteLog, LockLogMutex, UnlockLogMutex
<1>8. CASE SyncLogReply(b)
  BY <1>0, <1>a, <1>8 DEF SyncLogReply, Goto, BalconyAt, BalconyTyped, NextTurn, logVars,
     SyncLog, WriteLog, LockLogMutex, UnlockLogMutex
<1>9. CASE WriteLogReply(b)
  BY <1>0, <1>a, <1>9 DEF WriteLogReply, Goto, BalconyAt, BalconyTyped, NextTurn, logVars,
     SyncLog, WriteLog, LockLogMutex, UnlockLogMutex
<1>10. CASE WriteReply(b)
  BY <1>0, <1>a, <1>10 DEF WriteReply, Goto, BalconyAt, BalconyTyped, NextTurn, logVars,
     SyncLog, WriteLog, LockLogMutex, UnlockLogMutex
<1>11. CASE CloseUserFifo(b)
  BY <1>0, <1>a, <1>11 DEF CloseUserFifo, Goto, BalconyAt, BalconyTyped, NextTurn, logVars,
     SyncLog, WriteLog, LockLogMutex, UnlockLogMutex
<1>12. QED
  BY <1>1, <1>2, <1>3, <1>4, <1>5, <1>6, <1>7, <1>8, <1>9, <1>10, <1>11 DEF Serves

\* Nobody prints in the buffer while another one has still to write it.
LEMMA BalconyKeepsBuffer ==
    ASSUME IInv, NEW b \in Balconies, Serves(b)
    PROVE  Buffer'
<1>0. Buffer /\ Nobody \notin Balconies
  BY ConstantsAre DEF IInv
<1>1. SUFFICES ASSUME NEW c \in Balconies
               PROVE  /\ log_mutex' = c <=> bpc'[c] \in {"write_log_request", "write_log_reply"}
                      /\ bpc'[c] = "write_log_request" =>
                          log_buffer' = [user |-> first_request'[c], record |-> RequestRecord]
                      /\ bpc'[c] = "write_log_reply" =>
                          log_buffer' = [user |-> first_request'[c],
                                         record |-> ReplyRecord(req_ret'[c])]
  BY DEF Buffer
<1>2. CASE c = b
  BY <1>2, BalconyKeepsOwnBuffer
<1>3. CASE c # b
  <2>1. bpc'[c] = bpc[c] /\ first_request'[c] = first_request[c] /\ req_ret'[c] = req_ret[c]
    BY <1>3, OtherBalconies
  <2>2. /\ log_mutex = c <=> bpc[c] \in {"write_log_request", "write_log_reply"}
        /\ bpc[c] = "write_log_request" =>
             log_buffer = [user |-> first_request[c], record |-> RequestRecord]
        /\ bpc[c] = "write_log_reply" =>
             log_buffer = [user |-> first_request[c], record |-> ReplyRecord(req_ret[c])]
    BY <1>0 DEF Buffer
  <2>3. CASE log_mutex' = log_mutex /\ log_buffer' = log_buffer
    BY <2>1, <2>2, <2>3
  <2>4. CASE log_mutex \in {b, Nobody} /\ log_mutex' \in {b, Nobody}
    BY <1>0, <1>3, <2>1, <2>2, <2>4
  <2>5. QED
    BY <2>3, <2>4, BalconyKeepsOwnBuffer
<1>4. QED
  BY <1>2, <1>3

\* OpenUserFifo takes a number that is free.
LEMMA OpenTakesFree ==
    ASSUME IInv, NEW b \in Balconies, OpenUserFifo(b)
    PROVE  /\ bpc[b] = "open" /\ bpc'[b] = "log_reply"
           /\ first_request[b] \in Users /\ first_request' = first_request
           /\ linked[first_request[b]]
           /\ user_fifo'[b] \in Numbers /\ fd[user_fifo'[b]] = Free
           /\ fd' = [fd EXCEPT ![user_fifo'[b]] =
                        IF reading[first_request[b]] = "closed"
                        THEN Opening(first_request[b]) ELSE Opened(first_request[b])]
<1>0. BalconyTyped
  BY Typed DEF IInv
<1>1. bpc[b] = "open"
  BY DEF OpenUserFifo, BalconyAt
<1>2. /\ Min({m \in Numbers : fd[m] = Free}) \in Numbers
      /\ fd[Min({m \in Numbers : fd[m] = Free})] = Free
  BY <1>1, FreeNumber
<1>3. user_fifo'[b] = Min({m \in Numbers : fd[m] = Free})
  BY <1>0 DEF OpenUserFifo, BalconyTyped
<1>4. first_request[b] \in Users
  BY <1>0, <1>1 DEF BalconyTyped, IInv, Requests
<1>5. bpc'[b] = "log_reply" /\ first_request' = first_request
  BY <1>0 DEF OpenUserFifo, Goto, BalconyTyped
<1>6. fd' = [fd EXCEPT ![user_fifo'[b]] =
                IF reading[first_request[b]] = "closed"
                THEN Opening(first_request[b]) ELSE Opened(first_request[b])]
  BY <1>3 DEF OpenUserFifo
<1>7. linked[first_request[b]]
  BY DEF OpenUserFifo
<1>8. QED
  BY <1>1, <1>2, <1>3, <1>4, <1>5, <1>6, <1>7

\* What a step of a balcony makes of a descriptor.
LEMMA NumberAfter ==
    ASSUME IInv, NEW b \in Balconies, Serves(b), NEW n \in Numbers
    PROVE  \/ fd'[n] = fd[n]
           \/ fd'[n] = Free /\ (ServeShutdown(b) \/ CloseUserFifo(b))
           \/ /\ OpenUserFifo(b) /\ user_fifo'[b] = n /\ fd[n] = Free
              /\ \/ fd'[n] = Opening(first_request[b])
                 \/ fd'[n] = Opened(first_request[b]) /\ reading[first_request[b]] # "closed"
<1>0. ServerTyped
  BY Typed DEF IInv
<1>1. CASE ServeShutdown(b)
  BY <1>0, <1>1 DEF ServeShutdown, ServerTyped
<1>2. CASE CloseUserFifo(b)
  BY <1>0, <1>2 DEF CloseUserFifo, ServerTyped
<1>3. CASE OpenUserFifo(b)
  BY <1>0, <1>3, OpenTakesFree DEF ServerTyped
<1>4. QED
  BY <1>1, <1>2, <1>3, BalconyFrame

\* A balcony keeps its descriptor until it closes it.
LEMMA KeepsUsing ==
    ASSUME IInv, NEW b \in Balconies, Serves(b), NEW n \in Numbers,
           Using(b), user_fifo[b] = n, CanClose(n)
    PROVE  fd'[n] = Free \/ (Using(b)' /\ user_fifo'[b] = n)
<1>0. BalconyTyped /\ ServerTyped
  BY Typed DEF IInv
<1>1. CASE SyncLogReply(b)
  BY <1>0, <1>1 DEF SyncLogReply, Using, Goto, BalconyTyped
<1>2. CASE WriteLogReply(b)
  BY <1>0, <1>2 DEF WriteLogReply, Using, Goto, BalconyTyped
<1>3. CASE WriteReply(b)
  BY <1>0, <1>3 DEF WriteReply, Using, Goto, BalconyTyped
<1>4. CASE CloseUserFifo(b)
  BY <1>0, <1>4 DEF CloseUserFifo, ServerTyped
<1>5. bpc[b] \in {"log_reply", "write_log_reply", "write", "close"}
  BY DEF Using
<1>6. QED
  BY <1>1, <1>2, <1>3, <1>4, <1>5 DEF Serves, TakeRequest, SyncLogRequest, WriteLogRequest,
     ServeAccounts, ServeShutdown, OpenUserFifo, OpenUserFifoFails, BalconyAt

\* An open takes a free number, and a close frees one: every other number keeps its balcony.
LEMMA BalconyKeepsDescriptors ==
    ASSUME IInv, NEW b \in Balconies, Serves(b)
    PROVE  Descriptors'
<1>0. upc' = upc /\ Descriptors /\ BadFd \notin Numbers
  BY ConstantsAre, BalconyFrame DEF IInv
<1>1. \A c \in Balconies \ {b} :
        bpc'[c] = bpc[c] /\ first_request'[c] = first_request[c] /\ user_fifo'[c] = user_fifo[c]
  BY OtherBalconies
<1> SUFFICES ASSUME NEW n \in Numbers
             PROVE  /\ fd'[n] = DummyEnd => n = Dummy
                    /\ \A v \in Users : fd'[n] = Opening(v) =>
                        \E c \in Balconies : bpc'[c] = "log_reply" /\ user_fifo'[c] = n
                                             /\ first_request'[c] = v
                    /\ \A v \in Users : fd'[n] = Opened(v) =>
                        /\ upc[v] \in HasOpened
                        /\ \E c \in Balconies : Using(c)' /\ user_fifo'[c] = n
  BY <1>0 DEF Descriptors
<1>2. CASE fd'[n] = fd[n]
  <2>1. fd'[n] = DummyEnd => n = Dummy
    BY <1>0, <1>2 DEF Descriptors
  <2>2. ASSUME NEW v \in Users, fd'[n] = Opening(v)
        PROVE  \E c \in Balconies : bpc'[c] = "log_reply" /\ user_fifo'[c] = n
                                    /\ first_request'[c] = v
    <3>0. fd[n] = Opening(v)
      BY <1>2, <2>2
    <3>1. PICK c \in Balconies : bpc[c] = "log_reply" /\ user_fifo[c] = n /\ first_request[c] = v
      BY <1>0, <3>0, Zenon DEF Descriptors
    <3>2. CASE c = b
      <4>1. Waiting(b)
        BY <1>2, <2>2, <3>1, <3>2 DEF Waiting
      <4>2. SyncLogReply(b)
        BY <3>1, <3>2 DEF Serves, TakeRequest, SyncLogRequest, WriteLogRequest, ServeAccounts,
           ServeShutdown, OpenUserFifo, OpenUserFifoFails, WriteLogReply, WriteReply,
           CloseUserFifo, BalconyAt
      <4>3. QED
        BY <4>1, <4>2 DEF SyncLogReply
    <3>3. QED
      BY <1>1, <3>1, <3>2
  <2>3. ASSUME NEW v \in Users, fd'[n] = Opened(v)
        PROVE  /\ upc[v] \in HasOpened
               /\ \E c \in Balconies : Using(c)' /\ user_fifo'[c] = n
    <3>1. upc[v] \in HasOpened
      BY <1>0, <1>2, <2>3 DEF Descriptors
    <3>0. fd[n] = Opened(v)
      BY <1>2, <2>3
    <3>2. PICK c \in Balconies : Using(c) /\ user_fifo[c] = n
      BY <1>0, <3>0, Zenon DEF Descriptors
    <3>3. CASE c = b
      <4>1. CanClose(n) /\ fd'[n] # Free
        BY <1>2, <2>3, FilesDiffer DEF CanClose
      <4>2. QED
        BY <3>1, <3>2, <3>3, <4>1, KeepsUsing
    <3>4. CASE c # b
      BY <1>1, <3>1, <3>2, <3>4 DEF Using
    <3>5. QED
      BY <3>3, <3>4
  <2>4. QED
    BY <2>1, <2>2, <2>3
<1>3. CASE fd'[n] = Free
  BY <1>3, FilesDiffer
<1>4. CASE /\ OpenUserFifo(b) /\ user_fifo'[b] = n /\ fd[n] = Free
           /\ \/ fd'[n] = Opening(first_request[b])
              \/ fd'[n] = Opened(first_request[b]) /\ reading[first_request[b]] # "closed"
  <2>1. /\ first_request[b] \in Users /\ bpc'[b] = "log_reply" /\ user_fifo'[b] = n
        /\ first_request'[b] = first_request[b]
    BY <1>4, OpenTakesFree
  <2>2. Using(b)'
    BY <1>0, <2>1 DEF Using
  <2>3. CASE fd'[n] = Opening(first_request[b])
    BY <2>1, <2>3, FilesDiffer
  <2>4. CASE fd'[n] = Opened(first_request[b]) /\ reading[first_request[b]] # "closed"
    <3>1. upc[first_request[b]] \in HasOpened
      BY <2>1, <2>4 DEF IInv, UserFiles
    <3>2. QED
      BY <2>1, <2>2, <2>4, <3>1, FilesDiffer
  <2>5. QED
    BY <1>4, <2>3, <2>4
<1>5. QED
  BY <1>2, <1>3, <1>4, NumberAfter

\* A balcony opens, and writes to, the FIFO of no user but one past its request.
LEMMA BalconyKeepsNoReply ==
    ASSUME IInv, NEW b \in Balconies, Serves(b)
    PROVE  NoReplyYet'
<1>0. /\ upc' = upc /\ ret_user' = ret_user /\ Requests /\ Nobody \notin Users
      /\ BalconyTyped /\ ServerTyped
  BY Typed, ConstantsAre, BalconyFrame DEF IInv
<1>1. \A c \in Balconies \ {b} : bpc'[c] = bpc[c] /\ first_request'[c] = first_request[c]
  BY OtherBalconies
<1>2. SUFFICES ASSUME NEW v \in Users, Unanswered(v)'
               PROVE  /\ ~HasWriter(v)' /\ content'[v] = <<>>
                      /\ upc'[v] \notin {"cancel_alarm", "log_reply"} /\ ~Done(v)'
  BY DEF NoReplyYet
<1>3. Unanswered(v)
  <2>1. CASE upc'[v] \in Unsent
    BY <1>0, <2>1 DEF Unanswered
  <2>2. CASE v \in pending'
    BY <2>2, BalconyMoves DEF Unanswered
  <2>3. CASE \E c \in Balconies : first_request'[c] = v /\ bpc'[c] \in Early
    <3>1. PICK c \in Balconies : first_request'[c] = v /\ bpc'[c] \in Early
      BY <2>3
    <3>2. CASE c # b
      BY <1>1, <3>1, <3>2 DEF Unanswered
    <3>3. CASE c = b /\ TakeRequest(b)
      BY <1>0, <3>1, <3>3 DEF TakeRequest, BalconyTyped, Unanswered
    <3>4. CASE c = b /\ ~TakeRequest(b)
      <4>1. bpc[b] \in Early /\ first_request[b] = v
        BY <1>0, <1>2, <3>1, <3>4, BalconyMoves
      <4>2. QED
        BY <4>1 DEF Unanswered
    <3>5. QED
      BY <3>2, <3>3, <3>4
  <2>4. QED
    BY <1>2, <2>1, <2>2, <2>3 DEF Unanswered
<1>4. /\ ~HasWriter(v) /\ content[v] = <<>>
      /\ upc[v] \notin {"cancel_alarm", "log_reply"} /\ ~Done(v)
  BY <1>3 DEF IInv, NoReplyYet
<1>5. ~HasWriter(v)'
  <2> SUFFICES ASSUME NEW n \in Numbers, fd'[n] \in {Opening(v), Opened(v)}
               PROVE  FALSE
    BY DEF HasWriter
  <2>1. fd'[n] # fd[n]
    BY <1>4 DEF HasWriter
  <2>2. OpenUserFifo(b) /\ first_request[b] = v
    BY <2>1, NumberAfter, FilesDiffer
  <2>3. bpc[b] = "open" /\ bpc'[b] = "log_reply" /\ first_request' = first_request
    BY <2>2, OpenTakesFree
  <2>4. Sent(v) /\ v \notin pending'
    BY <1>0, <2>2, BalconyMoves DEF Sent, Requests
  <2>5. upc'[v] \notin Unsent
    BY <1>0, <2>4 DEF Requests
  <2>6. PICK c \in Balconies : first_request'[c] = v /\ bpc'[c] \in Early
    BY <1>2, <2>4, <2>5 DEF Unanswered
  <2>7. c = b
    BY <1>0, <2>2, <2>3, <2>6 DEF Requests
  <2>8. QED
    BY <2>3, <2>6, <2>7 DEF Early
<1>6. content'[v] = <<>>
  <2>1. CASE WriteReply(b)
    <3>1. user_fifo[b] \in Numbers
      BY <1>0, <2>1 DEF WriteReply, BalconyAt, BalconyTyped, Requests
    <3>2. fd[user_fifo[b]] # Opened(v)
      BY <1>4, <3>1 DEF HasWriter
    <3>3. QED
      BY <1>4, <2>1, <3>2 DEF WriteReply
  <2>2. QED
    BY <1>4, <2>1, BalconyFrame
<1>7. QED
  BY <1>0, <1>4, <1>5, <1>6 DEF Done

\* The balcony that does not find the FIFO of its user: the user timed out.
LEMMA NoFifoTimedOut ==
    ASSUME IInv, NEW b \in Balconies, OpenUserFifoFails(b)
    PROVE  first_request[b] \in Users /\ GaveUp(first_request[b])
<1>1. bpc[b] = "open" /\ ~linked[first_request[b]]
  BY DEF OpenUserFifoFails, BalconyAt
<1>2. first_request[b] \in Users
  BY <1>1 DEF IInv, TypeOK, Requests
<1> DEFINE u == first_request[b]
<1>3. Sent(u)
  BY DEF Sent
<1>4. upc[u] = "left" /\ ret_user[u] # "RC_SRV_DOWN"
  BY <1>1, <1>2, <1>3 DEF IInv, Requests
<1>5. Unanswered(u)
  BY <1>1 DEF Unanswered, Early
<1>6. ret_user[u] # "RC_OK"
  BY <1>2, <1>4, <1>5 DEF IInv, NoReplyYet, Done
<1>7. ret_user[u] = "RC_SRV_TIMEOUT"
  BY <1>2, <1>4, <1>6 DEF IInv, UserRecords
<1>8. QED
  BY <1>2, <1>4, <1>7 DEF GaveUp

\* No other step makes the code of a reply RC_USR_DOWN.
LEMMA BalconyCodes ==
    ASSUME IInv, NEW b \in Balconies, Serves(b)
    PROVE  \/ OpenUserFifoFails(b)
           \/ req_ret'[b] # "RC_USR_DOWN"
           \/ req_ret[b] = "RC_USR_DOWN" /\ first_request'[b] = first_request[b]
<1>0. BalconyTyped /\ Requests /\ NoCode \notin Codes
  BY Typed, ConstantsAre DEF IInv
<1>1. CASE TakeRequest(b)
  <2>1. first_request[b] = Nobody /\ req_ret' = req_ret
    BY <1>0, <1>1 DEF TakeRequest, BalconyAt, Requests
  <2>2. req_ret[b] # "RC_USR_DOWN"
    BY <2>1, ConstantsAre DEF IInv, DownGaveUp
  <2>3. QED
    BY <2>1, <2>2
<1>2. CASE SyncLogRequest(b)
  BY <1>0, <1>2 DEF SyncLogRequest, Goto, BalconyAt, BalconyTyped, NextTurn
<1>3. CASE WriteLogRequest(b)
  BY <1>0, <1>3 DEF WriteLogRequest, Goto, BalconyAt, BalconyTyped, NextTurn
<1>4. CASE ServeAccounts(b)
  BY <1>0, <1>4, ConstantsAre DEF ServeAccounts, BalconyTyped
<1>5. CASE ServeShutdown(b)
  BY <1>0, <1>5 DEF ServeShutdown, Goto, BalconyAt, BalconyTyped, NextTurn
<1>6. CASE OpenUserFifo(b)
  BY <1>0, <1>6 DEF OpenUserFifo, Goto, BalconyAt, BalconyTyped, NextTurn
<1>7. CASE OpenUserFifoFails(b)
  BY <1>7
<1>8. CASE SyncLogReply(b)
  BY <1>0, <1>8 DEF SyncLogReply, Goto, BalconyAt, BalconyTyped, NextTurn
<1>9. CASE WriteLogReply(b)
  BY <1>0, <1>9 DEF WriteLogReply, NextTurn, NoCode, BalconyTyped
<1>10. CASE WriteReply(b)
  BY <1>0, <1>10 DEF WriteReply, Goto, BalconyAt, BalconyTyped, NextTurn
<1>11. CASE CloseUserFifo(b)
  BY <1>0, <1>11 DEF CloseUserFifo, NextTurn, NoCode, BalconyTyped
<1>12. QED
  BY <1>1, <1>2, <1>3, <1>4, <1>5, <1>6, <1>7, <1>8, <1>9, <1>10, <1>11 DEF Serves

\* RC_USR_DOWN is given, and recorded, for a user that has timed out.
LEMMA BalconyKeepsGaveUp ==
    ASSUME IInv, NEW b \in Balconies, Serves(b)
    PROVE  DownGaveUp'
<1>0. upc' = upc /\ ret_user' = ret_user /\ DownGaveUp /\ BalconyTyped
  BY Typed, BalconyFrame DEF IInv
<1>1. \A c \in Balconies \ {b} : first_request'[c] = first_request[c] /\ req_ret'[c] = req_ret[c]
  BY OtherBalconies
<1>2. req_ret'[b] = "RC_USR_DOWN" =>
        first_request'[b] \in Users /\ GaveUp(first_request'[b])
  <2>1. CASE OpenUserFifoFails(b)
    BY <2>1, NoFifoTimedOut DEF OpenUserFifoFails
  <2>2. CASE ~OpenUserFifoFails(b)
    <3>1. req_ret'[b] = "RC_USR_DOWN" => req_ret[b] = "RC_USR_DOWN" /\ first_request'[b] = first_request[b]
      BY <1>0, <2>2, BalconyCodes
    <3>2. QED
      BY <1>0, <3>1 DEF DownGaveUp
  <2>3. QED
    BY <2>1, <2>2
<1>3. \A c \in Balconies : req_ret'[c] = "RC_USR_DOWN" =>
        first_request'[c] \in Users /\ GaveUp(first_request'[c])
  BY <1>0, <1>1, <1>2 DEF DownGaveUp
<1>4. ASSUME NEW v \in Users, slog'[v] = <<RequestRecord, ReplyRecord("RC_USR_DOWN")>>
      PROVE  GaveUp(v)
  <2>1. CASE slog'[v] = slog[v]
    BY <1>0, <1>4, <2>1 DEF DownGaveUp
  <2>2. CASE slog'[v] # slog[v]
    <3>1. slog'[v] # <<RequestRecord>>
      BY <1>4, SmallLogs
    <3>2. v = first_request[b] /\ slog'[v] = <<RequestRecord, ReplyRecord(req_ret[b])>>
      BY <2>2, <3>1, Written
    <3>3. req_ret[b] = "RC_USR_DOWN"
      BY <1>4, <3>2, SmallLogs, RecordsDiffer
    <3>4. QED
      BY <1>0, <3>2, <3>3 DEF DownGaveUp
  <2>3. QED
    BY <2>1, <2>2
<1>5. QED
  BY <1>0, <1>3, <1>4 DEF DownGaveUp, GaveUp

\* A user has no reply while the server has recorded none for it.
LEMMA NoRecordNoReply ==
    ASSUME IInv, NEW v \in Users, OwnReply(v), slog[v] \in {<<>>, <<RequestRecord>>}
    PROVE  /\ content[v] = <<>> /\ upc[v] \notin {"cancel_alarm", "log_reply"} /\ ~Done(v)
<1>1. \A r, s : slog[v] # <<r, s>>
  BY SmallLogs
<1>2. content[v] = <<>>
  <2>1. content[v] \in Seq(Replies)
    BY DEF IInv, TypeOK
  <2>2. content[v] # <<>> => 1 \in 1 .. Len(content[v])
    BY <2>1, TailIs
  <2>3. QED
    BY <1>1, <2>2 DEF OwnReply
<1>3. upc[v] \notin {"cancel_alarm", "log_reply"}
  BY <1>1 DEF OwnReply
<1>4. ~Done(v)
  <2>1. Done(v) => \E c \in Codes : ulog[v] = <<RequestRecord, ReplyRecord(c)>>
    BY DEF IInv, UserRecords, Done
  <2>2. QED
    BY <1>1, <2>1 DEF OwnReply
<1>5. QED
  BY <1>2, <1>3, <1>4

\* Before a mix-up, what a balcony writes to a user is what it recorded about that user.
LEMMA BalconyKeepsOwnReply ==
    ASSUME IInv, NEW b \in Balconies, Serves(b), ~misclosed, NEW v \in Users
    PROVE  OwnReply(v)'
<1>0. /\ UNCHANGED <<upc, ret_user, request_reply, ulog>> /\ OwnReply(v)
      /\ UserTyped /\ BalconyTyped
  BY Typed, BalconyFrame DEF IInv, Owned
<1>1. CASE content'[v] = content[v] /\ slog'[v] = slog[v]
  BY <1>0, <1>1 DEF OwnReply, Done
<1>2. CASE slog'[v] # slog[v]
  <2>1. slog[v] \in {<<>>, <<RequestRecord>>} /\ (WriteLogRequest(b) \/ WriteLogReply(b))
    BY <1>2, Written
  <2>2. content[v] = <<>> /\ upc[v] \notin {"cancel_alarm", "log_reply"} /\ ~Done(v)
    BY <1>0, <2>1, NoRecordNoReply
  <2>3. content' = content
    BY <2>1 DEF WriteLogRequest, WriteLogReply, fifoVars
  <2>4. Len(content'[v]) = 0
    BY <2>2, <2>3
  <2>5. QED
    BY <1>0, <2>2, <2>4 DEF OwnReply, Done
<1>3. CASE content'[v] # content[v] /\ slog'[v] = slog[v]
  <2>1. WriteReply(b)
    BY <1>3, BalconyFrame
  <2>2. /\ fd[user_fifo[b]] = Opened(v) /\ content'[v] = Append(content[v], Reply(b))
    BY <1>3, <2>1 DEF WriteReply
  <2>3. bpc[b] = "write" /\ user_fifo[b] # BadFd
    BY <2>1 DEF WriteReply, BalconyAt, IInv, Requests
  <2>4. fd[user_fifo[b]] = Opened(first_request[b])
    BY <2>3 DEF IInv, Owned, OwnFifo
  <2>5. first_request[b] = v
    BY <2>2, <2>4, FilesDiffer
  <2>6. slog[v] = <<RequestRecord, ReplyRecord(req_ret[b])>> /\ Reply(b).ret_code = req_ret[b]
    BY <2>3, <2>5 DEF IInv, ServerRecords, Reply
  <2>7. content[v] \in Seq(Replies) /\ Reply(b) \in Replies
    BY <1>0 DEF UserTyped, BalconyTyped, Reply, Replies
  <2>8. PICK s, t : s = content[v] /\ t = Append(s, Reply(b))
    OBVIOUS
  <2>9. /\ Len(s) \in Nat /\ Len(t) = Len(s) + 1 /\ t[Len(s) + 1] = Reply(b)
        /\ \A i \in 1 .. Len(s) : t[i] = s[i]
    BY <2>7, <2>8, AppendProperties, LenProperties
  <2>10. \A i \in 1 .. Len(s) : slog[v] = <<RequestRecord, ReplyRecord(s[i].ret_code)>>
    BY <1>0, <2>8 DEF OwnReply
  <2>11. \A i \in 1 .. Len(t) : slog[v] = <<RequestRecord, ReplyRecord(t[i].ret_code)>>
    <3> SUFFICES ASSUME NEW i \in 1 .. Len(t)
                 PROVE  slog[v] = <<RequestRecord, ReplyRecord(t[i].ret_code)>>
      OBVIOUS
    <3>1. i \in 1 .. Len(s) \/ i = Len(s) + 1
      BY <2>9
    <3>2. QED
      BY <2>6, <2>9, <2>10, <3>1
  <2>12. content'[v] = t
    BY <2>2, <2>8
  <2>13. QED
    BY <1>0, <1>3, <2>11, <2>12 DEF OwnReply, Done
<1>4. QED
  BY <1>1, <1>2, <1>3

\* The descriptors of the other balconies stay as they are.
LEMMA OthersKeepFifo ==
    ASSUME IInv, NEW b \in Balconies, Serves(b), ~misclosed, ~misclosed',
           NEW c \in Balconies \ {b}
    PROVE  OwnFifo(c)'
<1>0. /\ bpc'[c] = bpc[c] /\ first_request'[c] = first_request[c] /\ user_fifo'[c] = user_fifo[c]
      /\ OwnFifo(c) /\ ServerTyped /\ BalconyTyped
  BY Typed, OtherBalconies DEF IInv, Owned
<1>1. SUFFICES ASSUME user_fifo[c] # BadFd, bpc[c] \in Late
               PROVE  fd'[user_fifo[c]] = fd[user_fifo[c]]
  BY <1>0 DEF OwnFifo, Late
<1> DEFINE n == user_fifo[c]
<1>2. n \in Numbers
  BY <1>0, <1>1 DEF BalconyTyped
<1>3. fd[n] \in {Opening(first_request[c]), Opened(first_request[c])}
  BY <1>0, <1>1 DEF OwnFifo, Late
<1>4. CASE ServeShutdown(b)
  <2>1. fd[Dummy] = DummyEnd \/ fd' = fd
    BY <1>4 DEF ServeShutdown
  <2>2. n # Dummy \/ fd' = fd
    BY <1>3, <2>1, FilesDiffer
  <2>3. QED
    BY <1>0, <1>2, <1>4, <2>2 DEF ServeShutdown, ServerTyped
<1>5. CASE CloseUserFifo(b)
  <2>1. bpc[b] = "close" /\ user_fifo[b] # BadFd
    BY <1>5 DEF CloseUserFifo, BalconyAt, IInv, Requests
  <2>2. fd[user_fifo[b]] = Opened(first_request[b])
    BY <2>1 DEF IInv, Owned, OwnFifo
  <2>3. first_request[b] # first_request[c]
    BY <2>1 DEF IInv, Requests
  <2>4. user_fifo[b] # n
    BY <1>3, <2>2, <2>3, FilesDiffer
  <2>5. QED
    BY <1>0, <1>2, <1>5, <2>4 DEF CloseUserFifo, ServerTyped
<1>6. CASE OpenUserFifo(b)
  <2>1. fd[user_fifo'[b]] = Free
    BY <1>6, OpenTakesFree
  <2>2. user_fifo'[b] # n
    BY <1>3, <2>1, FilesDiffer
  <2>3. QED
    BY <1>0, <1>2, <1>6, <2>2, OpenTakesFree DEF ServerTyped
<1>7. QED
  BY <1>4, <1>5, <1>6, BalconyFrame

\* Before a mix-up, the number that a balcony opened stays its own until it closes it.
LEMMA KeepsOwnFifo ==
    ASSUME IInv, ~misclosed, NEW b \in Balconies, Serves(b)
    PROVE  OwnFifo(b)'
<1>0. BalconyTyped /\ ServerTyped /\ OwnFifo(b)
  BY Typed DEF IInv, Owned
<1>1. CASE TakeRequest(b)
  BY <1>0, <1>1 DEF TakeRequest, Goto, BalconyAt, BalconyTyped, NextTurn, OwnFifo
<1>2. CASE SyncLogRequest(b)
  BY <1>0, <1>2 DEF SyncLogRequest, Goto, BalconyAt, BalconyTyped, NextTurn, OwnFifo
<1>3. CASE WriteLogRequest(b)
  BY <1>0, <1>3 DEF WriteLogRequest, Goto, BalconyAt, BalconyTyped, NextTurn, OwnFifo
<1>4. CASE ServeAccounts(b)
  BY <1>0, <1>4 DEF ServeAccounts, Goto, BalconyAt, BalconyTyped, NextTurn, OwnFifo
<1>5. CASE ServeShutdown(b)
  BY <1>0, <1>5 DEF ServeShutdown, Goto, BalconyAt, BalconyTyped, NextTurn, OwnFifo
<1>6. CASE OpenUserFifo(b)
  <2>1. fd'[user_fifo'[b]] \in {Opening(first_request[b]), Opened(first_request[b])}
    BY <1>0, <1>6, OpenTakesFree DEF ServerTyped
  <2>2. bpc'[b] = "log_reply" /\ first_request' = first_request
    BY <1>6, OpenTakesFree
  <2>3. QED
    BY <2>1, <2>2 DEF OwnFifo
<1>7. CASE OpenUserFifoFails(b)
  BY <1>0, <1>7 DEF OpenUserFifoFails, Goto, BalconyAt, BalconyTyped, NextTurn,
     OwnFifo
<1>8. CASE SyncLogReply(b)
  <2>1. /\ bpc[b] = "log_reply" /\ bpc'[b] = "write_log_reply" /\ fd' = fd
        /\ user_fifo' = user_fifo /\ first_request' = first_request
    BY <1>0, <1>8 DEF SyncLogReply, BalconyAt, Goto, BalconyTyped
  <2>2. user_fifo[b] # BadFd => fd[user_fifo[b]] = Opened(first_request[b])
    BY <1>0, <1>8, <2>1 DEF SyncLogReply, Waiting, OwnFifo, BalconyTyped
  <2>3. QED
    BY <2>1, <2>2 DEF OwnFifo
<1>9. CASE WriteLogReply(b)
  BY <1>0, <1>9 DEF WriteLogReply, Goto, BalconyAt, BalconyTyped, NextTurn, OwnFifo
<1>10. CASE WriteReply(b)
  BY <1>0, <1>10 DEF WriteReply, Goto, BalconyAt, BalconyTyped, NextTurn, OwnFifo
<1>11. CASE CloseUserFifo(b)
  BY <1>0, <1>11 DEF CloseUserFifo, Goto, BalconyAt, BalconyTyped, NextTurn, OwnFifo
<1>12. QED
  BY <1>1, <1>2, <1>3, <1>4, <1>5, <1>6, <1>7, <1>8, <1>9, <1>10, <1>11 DEF Serves

\* Both hold for all balconies and users together.
LEMMA BalconyKeepsOwned ==
    ASSUME IInv, NEW b \in Balconies, Serves(b)
    PROVE  Owned'
<1>1. misclosed => misclosed'
  <2>1. CASE ServeShutdown(b)
    BY <2>1 DEF ServeShutdown
  <2>2. QED
    BY <2>1, BalconyFrame
<1>2. SUFFICES ASSUME ~misclosed'
               PROVE  /\ \A c \in Balconies : OwnFifo(c)'
                      /\ \A v \in Users : OwnReply(v)'
  BY DEF Owned
<1>3. ~misclosed
  BY <1>1, <1>2
<1>4. OwnFifo(b)'
  BY <1>3, KeepsOwnFifo
<1>5. \A c \in Balconies \ {b} : OwnFifo(c)'
  BY <1>2, <1>3, OthersKeepFifo
<1>6. \A v \in Users : OwnReply(v)'
  BY <1>3, BalconyKeepsOwnReply
<1>7. QED
  BY <1>4, <1>5, <1>6

\* A balcony that is going to answer its user answers it.
LEMMA KeepsAnswering ==
    ASSUME IInv, ~misclosed, NEW b \in Balconies, Serves(b), Answering(b),
           NEW v \in Users, first_request[b] = v
    PROVE  content'[v] # <<>> \/ (first_request'[b] = v /\ Answering(b)')
<1>0. UserTyped /\ BalconyTyped
  BY Typed DEF IInv
<1>1. CASE SyncLogReply(b)
  BY <1>0, <1>1 DEF SyncLogReply, Answering, Goto, BalconyTyped
<1>2. CASE WriteLogReply(b)
  BY <1>0, <1>2 DEF WriteLogReply, Answering, Goto, BalconyTyped
<1>3. CASE WriteReply(b)
  <2>1. bpc[b] = "write" /\ user_fifo[b] # BadFd
    BY <1>3 DEF WriteReply, BalconyAt, Answering
  <2>2. fd[user_fifo[b]] = Opened(v)
    BY <2>1 DEF IInv, Owned, OwnFifo
  <2>3. content'[v] = Append(content[v], Reply(b))
    BY <1>3, <2>2 DEF WriteReply
  <2>4. content[v] \in Seq(Replies) /\ Reply(b) \in Replies
    BY <1>0 DEF UserTyped, BalconyTyped, Reply, Replies
  <2>5. QED
    BY <2>3, <2>4, AppendProperties
<1>4. bpc[b] \in {"log_reply", "write_log_reply", "write"}
  BY DEF Answering
<1>5. QED
  BY <1>1, <1>2, <1>3, <1>4 DEF Serves, TakeRequest, SyncLogRequest, WriteLogRequest,
     ServeAccounts, ServeShutdown, OpenUserFifo, OpenUserFifoFails, CloseUserFifo, BalconyAt

\* A balcony leaves a user that waits only after it wrote its reply.
LEMMA BalconyKeepsAwaited ==
    ASSUME IInv, NEW b \in Balconies, Serves(b)
    PROVE  Awaited'
<1>0. UserTyped /\ BalconyTyped /\ upc' = upc
  BY Typed, BalconyFrame DEF IInv
<1>1. SUFFICES ASSUME ~misclosed', NEW v \in Users, upc[v] = "read", reading'[v] = "open"
               PROVE  \/ content'[v] # <<>>
                      \/ \E c \in Balconies : first_request'[c] = v /\ Answering(c)'
  BY <1>0 DEF Awaited
<1>2. ~misclosed /\ server = "up"
  BY <1>1, BalconyFrame DEF ServeShutdown
<1>3. CASE reading[v] = "open"
  <2>1. CASE content[v] # <<>>
    <3>1. CASE content'[v] = content[v]
      BY <2>1, <3>1
    <3>2. CASE content'[v] = Append(content[v], Reply(b))
      <4>1. content[v] \in Seq(Replies) /\ Reply(b) \in Replies
        BY <1>0 DEF UserTyped, BalconyTyped, Reply, Replies
      <4>2. QED
        BY <3>2, <4>1, AppendProperties
    <3>3. QED
      BY <3>1, <3>2, BalconyFrame DEF WriteReply
  <2>2. CASE \E c \in Balconies : first_request[c] = v /\ Answering(c)
    <3>1. PICK c \in Balconies : first_request[c] = v /\ Answering(c)
      BY <2>2
    <3>2. CASE c = b
      BY <1>2, <3>1, <3>2, KeepsAnswering
    <3>3. CASE c # b
      <4>1. /\ bpc'[c] = bpc[c] /\ first_request'[c] = first_request[c]
            /\ user_fifo'[c] = user_fifo[c]
        BY <3>3, OtherBalconies
      <4>2. QED
        BY <3>1, <4>1 DEF Answering
    <3>4. QED
      BY <3>2, <3>3
  <2>3. QED
    BY <1>1, <1>2, <1>3, <2>1, <2>2 DEF IInv, Awaited
<1>4. CASE reading[v] # "open"
  <2>1. OpenUserFifo(b)
    BY <1>1, <1>4, BalconyFrame
  <2>2. first_request[b] = v
    BY <1>0, <1>1, <1>4, <2>1 DEF OpenUserFifo, UserTyped
  <2>3. bpc'[b] = "log_reply" /\ first_request' = first_request /\ user_fifo'[b] \in Numbers
    BY <2>1, OpenTakesFree
  <2>4. Answering(b)'
    BY <2>3, ConstantsAre DEF Answering
  <2>5. QED
    BY <2>2, <2>3, <2>4
<1>5. QED
  BY <1>3, <1>4

\* A step of a balcony keeps the invariant.
LEMMA BalconyKeeps ==
    ASSUME IInv, NEW b \in Balconies, Serves(b)
    PROVE  IInv'
<1>1. TypeOK'
  BY BalconyTypes
<1>2. \A v \in Users : UserRecords(v)' /\ UserFiles(v)'
  BY BalconyKeepsUsers
<1>3. Requests' /\ ServerRecords' /\ Buffer' /\ Descriptors'
  BY BalconyKeepsRequests, BalconyKeepsRecords, BalconyKeepsBuffer, BalconyKeepsDescriptors
<1>4. NoReplyYet' /\ DownGaveUp'
  BY BalconyKeepsNoReply, BalconyKeepsGaveUp
<1>5. Owned' /\ Awaited'
  BY BalconyKeepsOwned, BalconyKeepsAwaited
<1>6. FailureHasACause'
  <2>1. upc' = upc /\ server' = server /\ (misclosed => misclosed')
    <3>1. CASE ServeShutdown(b)
      BY <3>1, BalconyFrame DEF ServeShutdown
    <3>2. QED
      BY <3>1, BalconyFrame
  <2>2. QED
    BY <2>1 DEF IInv, FailureHasACause
<1>7. QED
  BY <1>1, <1>2, <1>3, <1>4, <1>5, <1>6 DEF IInv

-----------------------------------------------------------------------------
(* The end of the server, and the first state.                             *)

\* The end of the server, wherever its balconies are.
LEMMA StopKeeps ==
    ASSUME IInv, NEW how \in {"ended", "killed"}, StopServer(how),
           UNCHANGED <<userVars, fifoVars, accepting, misclosed, slog>>
    PROVE  IInv'
<1>0. UserTyped /\ ServerTyped /\ BalconyTyped
  BY Typed DEF IInv
<1>a. /\ UNCHANGED <<upc, ret_user, armed, logged_request, logged_reply, request_reply, ulog>>
      /\ UNCHANGED <<linked, reading, content, accepting, misclosed, slog>>
  BY DEF userVars, fifoVars
<1>b. /\ server' = how /\ pending' = {} /\ log_mutex' = Nobody /\ log_buffer' = NoRecord
      /\ fd' = [n \in Numbers |-> Free]
      /\ bpc' = [b \in Balconies |-> "idle"]
      /\ first_request' = [b \in Balconies |-> Nobody]
      /\ req_ret' = [b \in Balconies |-> NoCode]
      /\ user_fifo' = [b \in Balconies |-> BadFd]
  BY DEF StopServer
<1>c. Nobody \notin Users /\ Nobody \notin Balconies /\ NoCode # "RC_USR_DOWN"
  BY ConstantsAre DEF NoCode
<1>1. TypeOK'
  <2>1. UserTyped'
    BY <1>0, <1>a DEF UserTyped
  <2>2. ServerTyped'
    BY <1>0, <1>a, <1>b DEF ServerTyped, Files
  <2>3. BalconyTyped'
    <3>1. NoRecord \in [user : Users \cup {Nobody}, record : Records]
      BY RecordsDiffer DEF NoRecord
    <3>2. QED
      BY <1>b, <3>1 DEF BalconyTyped
  <2>4. QED
    BY <2>1, <2>2, <2>3, TypedNext
<1>2. ASSUME NEW v \in Users PROVE UserRecords(v)' /\ UserFiles(v)'
  <2>1. UserRecords(v) /\ UserFiles(v)
    BY DEF IInv
  <2>2. UserRecords(v)'
    BY <1>a, <2>1 DEF UserRecords
  <2>3. UserFiles(v)'
    BY <1>a, <2>1 DEF UserFiles
  <2>4. QED
    BY <2>2, <2>3
<1>3. Requests'
  BY <1>b, <1>c DEF Requests, Sent, Late
<1>4. ServerRecords'
  <2>1. ServerRecords
    BY DEF IInv
  <2>2. QED
    BY <1>a, <1>b, <2>1 DEF ServerRecords
<1>5. Buffer'
  BY <1>b, <1>c DEF Buffer
<1>6. Descriptors'
  BY <1>b, FilesDiffer DEF Descriptors
<1>7. NoReplyYet'
  <2> SUFFICES ASSUME NEW v \in Users, Unanswered(v)'
               PROVE  /\ ~HasWriter(v)' /\ content'[v] = <<>>
                      /\ upc'[v] \notin {"cancel_alarm", "log_reply"} /\ ~Done(v)'
    BY DEF NoReplyYet
  <2>1. Unanswered(v)
    BY <1>a, <1>b DEF Unanswered, Early
  <2>2. ~HasWriter(v)'
    BY <1>b, FilesDiffer DEF HasWriter
  <2>3. QED
    BY <1>a, <2>1, <2>2 DEF IInv, NoReplyYet, Done
<1>8. DownGaveUp'
  <2>1. \A v \in Users : slog'[v] = <<RequestRecord, ReplyRecord("RC_USR_DOWN")>> => GaveUp(v)'
    BY <1>a DEF IInv, DownGaveUp, GaveUp
  <2>2. QED
    BY <1>b, <1>c, <2>1 DEF DownGaveUp
<1>9. Owned'
  <2>1. \A b \in Balconies : OwnFifo(b)'
    BY <1>b DEF OwnFifo
  <2>2. ASSUME ~misclosed, NEW v \in Users PROVE OwnReply(v)'
    <3>1. OwnReply(v)
      BY <2>2 DEF IInv, Owned
    <3>2. QED
      BY <1>a, <3>1 DEF OwnReply, Done
  <2>3. QED
    BY <1>a, <2>1, <2>2 DEF Owned
<1>10. Awaited' /\ FailureHasACause'
  BY <1>b DEF Awaited, FailureHasACause
<1>11. QED
  BY <1>1, <1>2, <1>3, <1>4, <1>5, <1>6, <1>7, <1>8, <1>9, <1>10 DEF IInv

\* The invariant at the start.
LEMMA InitOK == Init => IInv
<1> SUFFICES ASSUME Init
             PROVE  IInv
  OBVIOUS
<1>c. /\ Nobody \notin Users /\ Nobody \notin Balconies /\ Dummy \in Numbers
      /\ NoCode # "RC_USR_DOWN" /\ NoCode # "RC_SRV_DOWN"
  BY ConstantsAre DEF NoCode
<1>1. TypeOK
  <2>1. NoRecord \in [user : Users \cup {Nobody}, record : Records]
    BY RecordsDiffer DEF NoRecord
  <2>2. NoReply \in Replies
    BY DEF NoReply, Replies
  <2>3. UserTyped
    BY <2>2 DEF Init, UserTyped
  <2>4. ServerTyped
    <3>1. fd \in [Numbers -> Files]
      BY DEF Init, Files
    <3>2. slog \in [Users -> Seq(Records)]
      BY SequencesAre DEF Init
    <3>3. QED
      BY <3>1, <3>2 DEF Init, ServerTyped
  <2>5. BalconyTyped
    BY <2>1 DEF Init, BalconyTyped
  <2>6. QED
    BY <2>3, <2>4, <2>5, Typed
<1>2. ASSUME NEW v \in Users PROVE UserRecords(v) /\ UserFiles(v)
  <2>1. /\ upc[v] = "mkfifo" /\ ~armed[v] /\ ulog[v] = <<>> /\ ~logged_request[v]
        /\ ~logged_reply[v] /\ ret_user[v] = NoCode
    BY DEF Init
  <2>2. UserRecords(v)
    BY <1>c, <2>1 DEF UserRecords
  <2>3. reading[v] = "closed" /\ content[v] = <<>>
    BY DEF Init
  <2>4. Len(content[v]) = 0
    BY <2>3
  <2>5. UserFiles(v)
    BY <2>1, <2>3, <2>4 DEF UserFiles
  <2>6. QED
    BY <2>2, <2>5
<1>3. Requests
  BY <1>c DEF Init, Requests, Sent, Late
<1>4. ServerRecords
  BY DEF Init, ServerRecords
<1>5. Buffer
  BY <1>c DEF Init, Buffer
<1>6. Descriptors
  <2>1. \A n \in Numbers : fd[n] = Free \/ (fd[n] = DummyEnd /\ n = Dummy)
    BY DEF Init
  <2>2. QED
    BY <2>1, FilesDiffer DEF Descriptors
<1>7. NoReplyYet
  <2> SUFFICES ASSUME NEW v \in Users
               PROVE  /\ ~HasWriter(v) /\ content[v] = <<>>
                      /\ upc[v] \notin {"cancel_alarm", "log_reply"} /\ ~Done(v)
    BY DEF NoReplyYet
  <2>1. \A n \in Numbers : fd[n] \in {Free, DummyEnd}
    BY DEF Init
  <2>2. ~HasWriter(v)
    BY <2>1, FilesDiffer DEF HasWriter
  <2>3. content[v] = <<>> /\ upc[v] = "mkfifo"
    BY DEF Init
  <2>4. QED
    BY <2>2, <2>3 DEF Done
<1>8. DownGaveUp
  <2>1. \A v \in Users : slog[v] # <<RequestRecord, ReplyRecord("RC_USR_DOWN")>>
    BY SmallLogs DEF Init
  <2>2. QED
    BY <1>c, <2>1 DEF Init, DownGaveUp
<1>9. Owned
  <2>1. \A b \in Balconies : OwnFifo(b)
    BY DEF Init, OwnFifo
  <2>2. ASSUME NEW v \in Users PROVE OwnReply(v)
    <3>1. content[v] = <<>> /\ upc[v] = "mkfifo"
      BY DEF Init
    <3>2. Len(content[v]) = 0
      BY <3>1
    <3>3. QED
      BY <3>1, <3>2 DEF OwnReply, Done
  <2>3. QED
    BY <2>1, <2>2 DEF Owned
<1>10. Awaited /\ FailureHasACause
  BY DEF Init, Awaited, FailureHasACause
<1>11. QED
  BY <1>1, <1>2, <1>3, <1>4, <1>5, <1>6, <1>7, <1>8, <1>9, <1>10 DEF IInv

\* The invariant when nothing changes.
LEMMA StutterOK ==
    ASSUME IInv, UNCHANGED vars
    PROVE  IInv'
BY DEF vars, userVars, fifoVars, serverVars, balconyVars, logVars, IInv, TypeOK, UserRecords,
   UserFiles, Requests, Sent, ServerRecords, Buffer, Descriptors, Using, NoReplyYet, Unanswered,
   HasWriter, Done, DownGaveUp, GaveUp, Owned, OwnFifo, OwnReply, Awaited, Answering,
   FailureHasACause

\* The invariant after every step: of a user, of a balcony, of the server as a whole.
LEMMA NextOK ==
    ASSUME IInv, [Next]_vars
    PROVE  IInv'
<1>1. ASSUME NEW u \in Users, UserStep(u) \/ Alarm(u) \/ UserKilled(u)
      PROVE  IInv'
  BY <1>1, UserKeeps DEF UserNext
<1>2. ASSUME NEW b \in Balconies, BalconyStep(b)
      PROVE  IInv'
  <2>1. CASE WriteReplyKills(b)
    <3>1. /\ StopServer("killed") /\ "killed" \in {"ended", "killed"}
          /\ UNCHANGED <<userVars, fifoVars, accepting, misclosed, slog>>
      BY <2>1 DEF WriteReplyKills
    <3>2. QED
      BY <3>1, StopKeeps
  <2>2. CASE ~WriteReplyKills(b)
    <3>1. Serves(b)
      BY <1>2, <2>2 DEF BalconyStep, Serves
    <3>2. QED
      BY <3>1, BalconyKeeps
  <2>3. QED
    BY <2>1, <2>2
<1>3. CASE ServerEnds
  <2>1. /\ StopServer("ended") /\ "ended" \in {"ended", "killed"}
        /\ UNCHANGED <<userVars, fifoVars, accepting, misclosed, slog>>
    BY <1>3 DEF ServerEnds
  <2>2. QED
    BY <2>1, StopKeeps
<1>4. CASE UNCHANGED vars
  BY <1>4, StutterOK
<1>5. QED
  BY <1>1, <1>2, <1>3, <1>4 DEF Next

-----------------------------------------------------------------------------
(* Theorems.                                                               *)

\* The inductive invariant: what a user has in its records and flags at each of
\* its points (user.c:119-190), where each request is, what the server has written
\* of it, which balcony answers for each descriptor and each user that waits
\* (server.c:330-385).
THEOREM DeliveryInvariant == Spec => []IInv
BY InitOK, NextOK, PTL DEF Spec

\* The variables keep their types, and a balcony always finds a free number for the
\* FIFO that it opens (server.c:351).
THEOREM TypeCorrect == Spec => []TypeOK
<1>1. IInv => TypeOK
  BY DEF IInv
<1>2. QED
  BY <1>1, DeliveryInvariant, PTL

\* The three logs that a user that left may have.
LEMMA RecordsOfLeft ==
    ASSUME IInv, NEW u \in Users, upc[u] = "left"
    PROVE  \/ /\ ret_user[u] = "RC_OK"
              /\ \E c \in Codes : ulog[u] = <<RequestRecord, ReplyRecord(c)>>
           \/ /\ ret_user[u] \in {"RC_SRV_DOWN", "RC_SRV_TIMEOUT"}
              /\ ulog[u] = <<RequestRecord, ReplyRecord(ret_user[u])>>
           \/ /\ ret_user[u] = "RC_SRV_TIMEOUT"
              /\ ulog[u] = <<RequestRecord, RequestRecord, ReplyRecord(ret_user[u])>>
BY DEF IInv, UserRecords

\* Each of them ends in its one reply record.
LEMMA LogIsComplete == IInv => UserLogComplete
<1> SUFFICES ASSUME IInv, NEW u \in Users, upc[u] = "left"
             PROVE  /\ RepliesLogged(u) = {Len(ulog[u])}
                    /\ ulog[u][1] = RequestRecord
                    /\ Len(ulog[u]) > 2 => ret_user[u] = "RC_SRV_TIMEOUT"
  BY DEF UserLogComplete
<1>0. /\ RequestRecord.kind # "reply"
      /\ \A c : ReplyRecord(c).kind = "reply"
  BY RecordsDiffer
<1>1. ASSUME NEW c, ulog[u] = <<RequestRecord, ReplyRecord(c)>>
      PROVE  RepliesLogged(u) = {Len(ulog[u])} /\ Len(ulog[u]) = 2 /\ ulog[u][1] = RequestRecord
  <2>1. /\ DOMAIN ulog[u] = {1, 2} /\ Len(ulog[u]) = 2
        /\ ulog[u][1] = RequestRecord /\ ulog[u][2] = ReplyRecord(c)
    BY <1>1
  <2>2. QED
    BY <1>0, <2>1 DEF RepliesLogged
<1>2. ASSUME NEW c, ulog[u] = <<RequestRecord, RequestRecord, ReplyRecord(c)>>
      PROVE  RepliesLogged(u) = {Len(ulog[u])} /\ ulog[u][1] = RequestRecord
  <2>1. /\ DOMAIN ulog[u] = {1, 2, 3} /\ Len(ulog[u]) = 3
        /\ ulog[u][1] = RequestRecord /\ ulog[u][2] = RequestRecord /\ ulog[u][3] = ReplyRecord(c)
    BY <1>2
  <2>2. QED
    BY <1>0, <2>1 DEF RepliesLogged
<1>3. CASE \E c : ulog[u] = <<RequestRecord, ReplyRecord(c)>>
  <2>1. RepliesLogged(u) = {Len(ulog[u])} /\ Len(ulog[u]) = 2 /\ ulog[u][1] = RequestRecord
    BY <1>1, <1>3
  <2>2. ~(Len(ulog[u]) > 2)
    BY <2>1
  <2>3. QED
    BY <2>1, <2>2
<1>4. CASE /\ ret_user[u] = "RC_SRV_TIMEOUT"
           /\ ulog[u] = <<RequestRecord, RequestRecord, ReplyRecord(ret_user[u])>>
  BY <1>2, <1>4
<1>5. QED
  BY <1>3, <1>4, RecordsOfLeft

\* A user that leaves by exit_user_process leaves exactly one reply record, last and
\* after its request record, wherever the alarm came (user.c:119-157 and 162-190),
\* for any number of users.
THEOREM LogsAreComplete == Spec => []UserLogComplete
BY LogIsComplete, DeliveryInvariant, PTL

\* What both logs have of a user that was served.
LEMMA LogsDoAgree == IInv => LogsAgree
<1> SUFFICES ASSUME IInv, NEW u \in Users, upc[u] = "left"
             PROVE  /\ ret_user[u] # "RC_OK" => Last(ulog[u]) = ReplyRecord(ret_user[u])
                    /\ ret_user[u] = "RC_OK" /\ ~misclosed =>
                        slog[u] = <<RequestRecord, Last(ulog[u])>>
  BY DEF LogsAgree
<1>1. ASSUME NEW r, NEW s, ulog[u] = <<r, s>>
      PROVE  Last(ulog[u]) = s
  BY <1>1 DEF Last
<1>2. ASSUME NEW r, NEW s, NEW t, ulog[u] = <<r, s, t>>
      PROVE  Last(ulog[u]) = t
  BY <1>2 DEF Last
<1>3. ret_user[u] # "RC_OK" => Last(ulog[u]) = ReplyRecord(ret_user[u])
  BY <1>1, <1>2, RecordsOfLeft
<1>4. ASSUME ret_user[u] = "RC_OK", ~misclosed
      PROVE  slog[u] = <<RequestRecord, Last(ulog[u])>>
  <2>1. PICK c \in Codes : ulog[u] = <<RequestRecord, ReplyRecord(c)>>
    BY <1>4, RecordsOfLeft
  <2>2. slog[u] = ulog[u]
    BY <1>4 DEF IInv, Owned, OwnReply, Done
  <2>3. QED
    BY <1>1, <2>1, <2>2
<1>5. QED
  BY <1>3, <1>4

\* The two logs agree about every user that was served, each record once and in its
\* order, though all balconies print in one buffer (log.c:149); a second shutdown
\* that mixed up the descriptors is the only exception.
THEOREM TheLogsAgree == Spec => []LogsAgree
BY LogsDoAgree, DeliveryInvariant, PTL

\* What RC_USR_DOWN in the server log means.
LEMMA DownIsTrue == IInv => UserDownIsTrue
<1> SUFFICES ASSUME IInv, NEW u \in Users, ReplyRecord("RC_USR_DOWN") \in ToSet(slog[u])
             PROVE  ret_user[u] = "RC_SRV_TIMEOUT"
  BY DEF UserDownIsTrue
<1>1. PICK i \in DOMAIN slog[u] : slog[u][i] = ReplyRecord("RC_USR_DOWN")
  BY DEF ToSet
<1>2. \A c : ReplyRecord(c) # RequestRecord
  BY RecordsDiffer
<1>3. slog[u] # <<>> /\ slog[u] # <<RequestRecord>>
  BY <1>1, <1>2
<1>4. PICK c \in Codes : slog[u] = <<RequestRecord, ReplyRecord(c)>>
  BY <1>3 DEF IInv, ServerRecords
<1>5. ReplyRecord("RC_USR_DOWN") \in {RequestRecord, ReplyRecord(c)}
  BY <1>1, <1>4
<1>6. c = "RC_USR_DOWN"
  BY <1>2, <1>5, RecordsDiffer
<1>7. GaveUp(u)
  BY <1>4, <1>6 DEF IInv, DownGaveUp
<1>8. QED
  BY <1>7 DEF GaveUp

\* The server takes no user for one that is down but those that have given up
\* (server.c:352-357).
THEOREM OnlyTheGoneAreDown == Spec => []UserDownIsTrue
BY DownIsTrue, DeliveryInvariant, PTL

\* The server never has more descriptors open than balconies that use one, however
\* replies, users and shutdowns interleave (server.c:351-383).
THEOREM NoDescriptorIsLeaked == Spec => []NoDescriptorLeak
<1>1. IInv => NoDescriptorLeak
  BY NumbersHaveOwners DEF NoDescriptorLeak, UsedNumbers, UsingBalconies
<1>2. QED
  BY <1>1, DeliveryInvariant, PTL

\* A user that waits for a reply fails only if the server went away, or a second
\* shutdown closed the descriptor of its balcony (user.c:137, requests.c:148).
THEOREM NoFailureWithoutCause == Spec => []FailureHasACause
<1>1. IInv => FailureHasACause
  BY DEF IInv
<1>2. QED
  BY <1>1, DeliveryInvariant, PTL

=============================================================================
