--------------------------- MODULE ServerProofs ---------------------------
(***************************************************************************)
(* The server with any number of users, balconies and shutdowns.           *)
(***************************************************************************)
EXTENDS Server, FiniteSetTheorems, FunctionTheorems, SequenceTheorems, TLAPS

-----------------------------------------------------------------------------
(* Counting.                                                               *)

\* How many balconies are at some points, when one of them moves.
LEMMA CountMoves ==
    ASSUME NEW b \in Balconies, NEW l, NEW points,
           bpc \in [Balconies -> BalconyPoints], Goto(b, l)
    PROVE  /\ Cardinality(BalconiesAt(points)) \in Nat
           /\ Cardinality(BalconiesAt(points)')
                = Cardinality(BalconiesAt(points))
                  + One(l \in points) - One(bpc[b] \in points)
<1> DEFINE Before == BalconiesAt(points)
           After == BalconiesAt(points)'
<1>1. IsFiniteSet(Before) /\ Cardinality(Before) \in Nat
  BY BalconiesAssumption, FS_Subset, FS_CardinalityType DEF BalconiesAt
<1>2. After = IF l \in points THEN Before \cup {b} ELSE Before \ {b}
  BY DEF BalconiesAt, Goto
<1>3. b \in Before <=> bpc[b] \in points
  BY DEF BalconiesAt
<1> HIDE DEF Before, After
<1>4. /\ Cardinality(Before \cup {b}) = IF b \in Before THEN Cardinality(Before)
                                        ELSE Cardinality(Before) + 1
      /\ Cardinality(Before \ {b}) = IF b \in Before THEN Cardinality(Before) - 1
                                     ELSE Cardinality(Before)
  BY <1>1, FS_AddElement, FS_RemoveElement
<1>5. Cardinality(After) = Cardinality(Before) + One(l \in points) - One(bpc[b] \in points)
  BY <1>1, <1>2, <1>3, <1>4 DEF One
<1>6. QED
  BY <1>1, <1>5 DEF Before, After

\* Some balcony is at one of the points exactly when their number is positive.
LEMMA CountPositive ==
    ASSUME NEW points
    PROVE  /\ Cardinality(BalconiesAt(points)) \in Nat
           /\ (\E b \in Balconies : bpc[b] \in points)
                 <=> Cardinality(BalconiesAt(points)) > 0
<1>1. IsFiniteSet(BalconiesAt(points)) /\ Cardinality(BalconiesAt(points)) \in Nat
  BY BalconiesAssumption, FS_Subset, FS_CardinalityType DEF BalconiesAt
<1>2. Cardinality(BalconiesAt(points)) = 0 <=> BalconiesAt(points) = {}
  BY <1>1, FS_EmptySet
<1>3. QED
  BY <1>1, <1>2 DEF BalconiesAt

\* How often u occurs in a sequence.
Occurrences(s, u) == Cardinality({i \in DOMAIN s : s[i] = u})

\* How often a user occurs is a number, and positive exactly when the user occurs.
LEMMA OccurrencesType ==
    ASSUME NEW s \in Seq(Users), NEW u
    PROVE  /\ IsFiniteSet({i \in DOMAIN s : s[i] = u})
           /\ Occurrences(s, u) \in Nat
           /\ (\E i \in DOMAIN s : s[i] = u) <=> Occurrences(s, u) > 0
<1> DEFINE At == {i \in DOMAIN s : s[i] = u}
<1>1. IsFiniteSet(DOMAIN s)
  BY LenProperties, FS_Interval
<1>2. IsFiniteSet(At) /\ Cardinality(At) \in Nat
  BY <1>1, FS_Subset, FS_CardinalityType
<1>3. Cardinality(At) = 0 <=> At = {}
  BY <1>2, FS_EmptySet
<1>4. QED
  BY <1>2, <1>3 DEF Occurrences

\* Nobody occurs in the empty sequence.
LEMMA OccurrencesEmpty ==
    ASSUME NEW u
    PROVE  Occurrences(<<>>, u) = 0
<1>1. {i \in DOMAIN <<>> : <<>>[i] = u} = {}
  OBVIOUS
<1>2. QED
  BY <1>1, FS_EmptySet DEF Occurrences

\* One more for the user that is appended.
LEMMA OccurrencesAppend ==
    ASSUME NEW s \in Seq(Users), NEW e \in Users, NEW u
    PROVE  Occurrences(Append(s, e), u) = Occurrences(s, u) + One(e = u)
<1> DEFINE At == {i \in DOMAIN s : s[i] = u}
           After == {i \in DOMAIN Append(s, e) : Append(s, e)[i] = u}
           n == Len(s) + 1
<1>1. IsFiniteSet(At) /\ Cardinality(At) \in Nat
  BY OccurrencesType DEF Occurrences
<1>2. /\ Len(s) \in Nat /\ DOMAIN s = 1 .. Len(s)
      /\ DOMAIN Append(s, e) = 1 .. n
      /\ \A i \in 1 .. Len(s) : Append(s, e)[i] = s[i]
      /\ Append(s, e)[n] = e
  BY LenProperties, AppendProperties
<1>3. After = IF e = u THEN At \cup {n} ELSE At
  BY <1>2
<1>4. n \notin At
  BY <1>2
<1> HIDE DEF At, After
<1>5. Cardinality(At \cup {n}) = Cardinality(At) + 1
  BY <1>1, <1>4, FS_AddElement
<1>6. Cardinality(After) = Cardinality(At) + One(e = u)
  BY <1>1, <1>3, <1>5 DEF One
<1>7. QED
  BY <1>6 DEF At, After, Occurrences

\* One less for the user at the head.
LEMMA OccurrencesTail ==
    ASSUME NEW s \in Seq(Users), s # <<>>, NEW u
    PROVE  Occurrences(s, u) = Occurrences(Tail(s), u) + One(Head(s) = u)
<1> DEFINE At == {i \in DOMAIN s : s[i] = u}
           After == {i \in DOMAIN Tail(s) : Tail(s)[i] = u}
           Shift == [i \in At \ {1} |-> i - 1]
<1>1. IsFiniteSet(At)
  BY OccurrencesType
<1>2. /\ Len(s) \in Nat \ {0} /\ DOMAIN s = 1 .. Len(s)
      /\ DOMAIN Tail(s) = 1 .. Len(s) - 1
      /\ \A i \in 1 .. Len(s) - 1 : Tail(s)[i] = s[i + 1]
      /\ Head(s) = s[1]
  BY LenProperties, HeadTailProperties, EmptySeq
<1>3. Shift \in Bijection(At \ {1}, After)
  <2>1. \A i \in At \ {1} : i - 1 \in After
    BY <1>2
  <2>2. \A j \in After : j + 1 \in At \ {1} /\ Shift[j + 1] = j
    BY <1>2
  <2>3. Shift \in [At \ {1} -> After]
    BY <2>1
  <2>4. Shift \in Surjection(At \ {1}, After)
    BY <2>2, <2>3, Fun_IsSurj
  <2>5. Shift \in Injection(At \ {1}, After)
    BY <1>2, <2>3, Fun_IsInj
  <2>6. QED
    BY <2>4, <2>5 DEF Bijection
<1>4. ExistsBijection(At \ {1}, After)
  BY <1>3 DEF ExistsBijection
<1>5. 1 \in At <=> Head(s) = u
  BY <1>2
<1> HIDE DEF At, After
<1>6. IsFiniteSet(At \ {1}) /\ Cardinality(At \ {1}) = IF Head(s) = u THEN Cardinality(At) - 1
                                                       ELSE Cardinality(At)
  BY <1>1, <1>5, FS_RemoveElement
<1>7. Cardinality(After) = Cardinality(At \ {1})
  BY <1>4, <1>6, FS_Bijection
<1>8. Cardinality(At) \in Nat
  BY <1>1, FS_CardinalityType
<1>9. Cardinality(At) = Cardinality(After) + One(Head(s) = u)
  BY <1>6, <1>7, <1>8 DEF One
<1>10. QED
  BY <1>9 DEF At, After, Occurrences


-----------------------------------------------------------------------------
(* The inductive invariant.                                                *)

Starting == {"create_balconies", "allocate", "create_admin", "open_fifo"}
ServiceLoop == {"read", "check", "wait_empty", "lock", "push", "post_full"}
Joined == {"cleanup", "close", "unlink", "exited"}
Ending == {"post_final"} \cup Joined
Holding == {"post_empty", "serve", "close_dummy", "fchmod", "reply"}

\* The mutex has the owner that its critical sections say.
MutexOwner ==
    /\ mutex = Main <=> mpc = "push"
    /\ \A b \in Balconies : mutex = b <=> bpc[b] \in {"check", "take"}

\* Until main opens the FIFO there is nothing to do for a balcony; when it has
\* joined them, they have ended.
Phases ==
    /\ mpc \in Starting =>
           full = 0 /\ queue = <<>> /\ \A b \in Balconies : bpc[b] \in {"unborn", "wait_full"}
    /\ mpc \in Joined => \A b \in Balconies : bpc[b] = "done"
    /\ mpc \notin {"create_balconies", "allocate", "create_admin", "close", "unlink", "exited"} =>
           database = "ready"

\* What the flag of the service promises: main leaves its loop, and the dummy
\* writer is closed, only after the flag was cleared.
Closing ==
    /\ posted > 0 => mpc \in Ending
    /\ mpc \in Ending => ~balcony_open
    /\ mpc \in ServiceLoop /\ ~dummy => ~balcony_open
    /\ \A b \in Balconies : bpc[b] \in {"close_dummy", "fchmod"} => ~balcony_open

\* A balcony that passed the semaphore sees an empty queue only when main has
\* begun its final posts; the queue is empty for good then.
Emptiness ==
    \A b \in Balconies :
        /\ queue_empty[b] => bpc[b] = "decide" /\ posted > 0 /\ queue = <<>>
        /\ bpc[b] = "done" => posted > 0 /\ queue = <<>>

\* Where the requests in hand are.
Hands ==
    /\ ret_val = 0
    /\ mpc \notin {"check", "wait_empty", "lock", "push"} => request = NoRequest
    /\ mpc = "check" /\ request = NoRequest => ~balcony_open
    /\ \A b \in Balconies : first_request[b] # NoRequest <=> bpc[b] \in Holding

Exits ==
    exit_code = "RC_OK" <=> mpc = "exited"

Control == MutexOwner /\ Phases /\ Closing /\ Emptiness /\ Hands /\ Exits

Accounting == EmptyAccounting /\ FullAccounting /\ ActiveOfficesExact

IInv ==
    /\ TypeOK
    /\ Control
    /\ NoPhantomRequest
    /\ NoAbortInService
    /\ Accounting
    /\ OneCopy

-----------------------------------------------------------------------------
(* Types.                                                                  *)

\* A step of a user keeps the types.
LEMMA UserTypes ==
    ASSUME TypeOK, NEW u \in Users, UserStep(u)
    PROVE  TypeOK'
<1> USE DEF TypeOK, UserGoto, fifoVars, mainVars, queueVars, balconyVars, serviceVars,
            outcomeVars
<1>1. CASE UserOpen(u)
  BY <1>1 DEF UserOpen, UserPoints
<1>2. CASE UserFindsServerDown(u)
  BY <1>2 DEF UserFindsServerDown, UserPoints
<1>3. CASE UserSend(u)
  <2>1. Append(fifo, u) \in Seq(Users)
    BY AppendProperties
  <2>2. upc' \in [Users -> UserPoints] /\ fifo' \in Seq(Users)
    BY <1>3, <2>1 DEF UserSend, UserPoints
  <2>3. QED
    BY <1>3, <2>2 DEF UserSend
<1>4. CASE UserKilled(u)
  BY <1>4 DEF UserKilled, UserPoints
<1>5. CASE UserLeave(u)
  BY <1>5 DEF UserLeave, UserPoints
<1>6. QED
  BY <1>1, <1>2, <1>3, <1>4, <1>5 DEF UserStep

\* So does one of the main thread: what it puts in the queue is a request, and
\* it posts no more than once for each balcony.
LEMMA MainTypes ==
    ASSUME TypeOK, NoPhantomRequest, MainStep
    PROVE  TypeOK'
<1> USE DEF TypeOK, MainAt, fifoVars, queueVars, balconyVars, serviceVars, outcomeVars
<1>1. CASE \E b \in Balconies : CreateBalcony(b)
  <2>1. bpc' \in [Balconies -> BalconyPoints]
    BY <1>1 DEF CreateBalcony, BalconyPoints
  <2>2. QED
    BY <1>1, <2>1 DEF CreateBalcony
<1>2. CASE AllocateDatabase
  BY <1>2 DEF AllocateDatabase
<1>3. CASE CreateAdmin
  BY <1>3 DEF CreateAdmin
<1>4. CASE OpenFifo
  BY <1>4 DEF OpenFifo
<1>5. CASE OpenDummy
  BY <1>5 DEF OpenDummy
<1>6. CASE ReadRequest
  BY <1>6, HeadTailProperties DEF ReadRequest, READ_OK
<1>7. CASE ReadEndOfFile
  BY <1>7 DEF ReadEndOfFile, READ_EOF
<1>8. CASE CheckRequest
  BY <1>8 DEF CheckRequest
<1>9. CASE MainWaitEmpty
  BY <1>9 DEF MainWaitEmpty
<1>10. CASE MainLock
  BY <1>10 DEF MainLock
<1>11. CASE MainPush
  <2>1. Append(queue, request) \in Seq(Users)
    BY <1>11, AppendProperties DEF MainPush, NoPhantomRequest
  <2>2. QED
    BY <1>11, <2>1 DEF MainPush
<1>12. CASE MainPostFull
  BY <1>12 DEF MainPostFull
<1>13. CASE MainPostFinal
  <2>1. n_threads \in Nat
    BY BalconiesAssumption, FS_CardinalityType DEF n_threads
  <2>2. QED
    BY <1>13, <2>1 DEF MainPostFinal
<1>14. CASE MainJoin
  BY <1>14 DEF MainJoin
<1>15. CASE MainCleanup
  <2>1. queue' = <<>> /\ <<>> \in Seq(Users)
    BY <1>15, EmptySeq DEF MainCleanup
  <2>2. QED
    BY <1>15, <2>1 DEF MainCleanup
<1>16. CASE MainClose
  BY <1>16 DEF MainClose
<1>17. CASE MainExit
  BY <1>17 DEF MainExit
<1>18. QED
  BY <1>1, <1>2, <1>3, <1>4, <1>5, <1>6, <1>7, <1>8, <1>9, <1>10, <1>11, <1>12,
     <1>13, <1>14, <1>15, <1>16, <1>17 DEF MainStep

\* And one of a balcony: the counter of active offices does not go below zero.
LEMMA BalconyTypes ==
    ASSUME TypeOK, ActiveOfficesExact, NEW b \in Balconies, BalconyStep(b)
    PROVE  TypeOK'
<1> USE DEF BalconyAt, fifoVars, mainVars, queueVars, balconyVars, serviceVars, outcomeVars
<1>0. \A l \in BalconyPoints : Goto(b, l) => bpc' \in [Balconies -> BalconyPoints]
  BY DEF Goto, TypeOK
<1>p. \A l \in {"lock_check", "check", "decide", "increase", "lock_take", "take", "done",
               "post_empty", "serve", "close_dummy", "fchmod", "reply", "decrease",
               "wait_full"} : l \in BalconyPoints
  BY DEF BalconyPoints
<1>1. CASE WaitFull(b)
  <2>1. bpc' \in [Balconies -> BalconyPoints]
    BY <1>1, <1>0, <1>p DEF WaitFull
  <2>2. QED
    BY <1>1, <2>1 DEF WaitFull, TypeOK
<1>2. CASE LockToCheck(b)
  <2>1. bpc' \in [Balconies -> BalconyPoints]
    BY <1>2, <1>0, <1>p DEF LockToCheck
  <2>2. QED
    BY <1>2, <2>1 DEF LockToCheck, TypeOK
<1>3. CASE CheckQueue(b)
  <2>1. bpc' \in [Balconies -> BalconyPoints]
    BY <1>3, <1>0, <1>p DEF CheckQueue
  <2>2. queue_empty' \in [Balconies -> BOOLEAN]
    BY <1>3 DEF CheckQueue, TypeOK
  <2>3. QED
    BY <1>3, <2>1, <2>2 DEF CheckQueue, TypeOK
<1>4. CASE Decide(b)
  <2>1. bpc' \in [Balconies -> BalconyPoints]
    BY <1>4, <1>0, <1>p DEF Decide
  <2>2. queue_empty' \in [Balconies -> BOOLEAN]
    BY <1>4 DEF Decide, TypeOK
  <2>3. QED
    BY <1>4, <2>1, <2>2 DEF Decide, TypeOK
<1>5. CASE IncreaseActiveOffices(b)
  <2>1. bpc' \in [Balconies -> BalconyPoints]
    BY <1>5, <1>0, <1>p DEF IncreaseActiveOffices
  <2>2. QED
    BY <1>5, <2>1 DEF IncreaseActiveOffices, TypeOK
<1>6. CASE LockToTake(b)
  <2>1. bpc' \in [Balconies -> BalconyPoints]
    BY <1>6, <1>0, <1>p DEF LockToTake
  <2>2. QED
    BY <1>6, <2>1 DEF LockToTake, TypeOK
<1>7. CASE Take(b)
  <2>1. bpc' \in [Balconies -> BalconyPoints]
    BY <1>7, <1>0, <1>p DEF Take
  <2>2. first_request' \in [Balconies -> Users \cup {NoRequest}] /\ queue' \in Seq(Users)
    BY <1>7, HeadTailProperties DEF Take, TypeOK
  <2>3. QED
    BY <1>7, <2>1, <2>2 DEF Take, TypeOK
<1>8. CASE TakeNothing(b)
  <2>1. reader' \in BOOLEAN /\ dummy' \in BOOLEAN
    BY <1>8 DEF TakeNothing
  <2>2. QED
    BY <1>8, <2>1 DEF TakeNothing, TypeOK
<1>9. CASE PostEmpty(b)
  <2>1. bpc' \in [Balconies -> BalconyPoints]
    BY <1>9, <1>0, <1>p DEF PostEmpty
  <2>2. QED
    BY <1>9, <2>1 DEF PostEmpty, TypeOK
<1>10. CASE ServeAccounts(b)
  <2>1. bpc' \in [Balconies -> BalconyPoints]
    BY <1>10, <1>0, <1>p DEF ServeAccounts
  <2>2. QED
    BY <1>10, <2>1 DEF ServeAccounts, TypeOK
<1>11. CASE ShutdownFlag(b)
  <2>1. bpc' \in [Balconies -> BalconyPoints]
    BY <1>11, <1>0, <1>p DEF ShutdownFlag
  <2>2. balcony_open' \in BOOLEAN
    BY <1>11 DEF ShutdownFlag, TypeOK
  <2>3. QED
    BY <1>11, <2>1, <2>2 DEF ShutdownFlag, TypeOK
<1>12. CASE ShutdownClose(b)
  <2>1. bpc' \in [Balconies -> BalconyPoints]
    BY <1>12, <1>0, <1>p DEF ShutdownClose
  <2>2. dummy' \in BOOLEAN
    BY <1>12 DEF ShutdownClose, TypeOK
  <2>3. QED
    BY <1>12, <2>1, <2>2 DEF ShutdownClose, TypeOK
<1>13. CASE ShutdownMode(b)
  <2>1. bpc' \in [Balconies -> BalconyPoints]
    BY <1>13, <1>0, <1>p DEF ShutdownMode
  <2>2. QED
    BY <1>13, <2>1 DEF ShutdownMode, TypeOK
<1>14. CASE SendReply(b)
  <2>1. bpc' \in [Balconies -> BalconyPoints]
    BY <1>14, <1>0, <1>p DEF SendReply
  <2>2. first_request' \in [Balconies -> Users \cup {NoRequest}]
    BY <1>14 DEF SendReply, TypeOK
  <2>3. replies' = [replies EXCEPT ![first_request[b]] = @ + 1]
    BY <1>14 DEF SendReply
  <2>4. \A u \in Users : replies[u] + 1 \in Nat
    BY DEF TypeOK
  <2>5. replies' \in [Users -> Nat]
    BY <2>3, <2>4 DEF TypeOK
  <2>6. QED
    BY <1>14, <2>1, <2>2, <2>5 DEF SendReply, TypeOK
<1>15. CASE DecreaseActiveOffices(b)
  <2>1. bpc' \in [Balconies -> BalconyPoints]
    BY <1>15, <1>0, <1>p DEF DecreaseActiveOffices
  <2>2. active_offices > 0
    BY <1>15, CountPositive DEF DecreaseActiveOffices, ActiveOfficesExact
  <2>3. QED
    BY <1>15, <2>1, <2>2 DEF DecreaseActiveOffices, TypeOK
<1>16. QED
  BY <1>1, <1>2, <1>3, <1>4, <1>5, <1>6, <1>7, <1>8, <1>9, <1>10, <1>11, <1>12,
     <1>13, <1>14, <1>15 DEF BalconyStep

-----------------------------------------------------------------------------
(* Control.                                                                *)

\* A balcony that passed the semaphore finds a request in the queue, unless
\* main has begun its final posts: every unit of full stands for a request
\* before them, and nobody takes one without having passed.
LEMMA PassedTheSemaphore ==
    ASSUME TypeOK, Phases, FullAccounting, NEW b \in Balconies, queue = <<>>,
           bpc[b] \in {"lock_check", "check", "decide", "increase", "lock_take", "take"}
    PROVE  posted > 0
<1> DEFINE passed == {"lock_check", "check", "decide", "increase", "lock_take", "take", "done"}
<1>1. Cardinality(BalconiesAt(passed)) \in Nat /\ Cardinality(BalconiesAt(passed)) > 0
  BY CountPositive
<1>2. mpc \notin {"close", "unlink", "exited"}
  BY DEF Phases, Joined
<1>3. full + Cardinality(BalconiesAt(passed)) + One(mpc = "post_full") = posted
  BY <1>2, EmptySeq DEF FullAccounting, TypeOK, n_threads
<1>4. full \in Nat /\ One(mpc = "post_full") \in Nat
  BY DEF TypeOK, One
<1>5. QED
  BY <1>1, <1>3, <1>4

\* The users have no part in the control of the server.
LEMMA UserControl ==
    ASSUME IInv, NEW u \in Users, UserStep(u)
    PROVE  Control' /\ NoPhantomRequest' /\ NoAbortInService'
<1> USE DEF IInv, UserGoto, fifoVars, mainVars, queueVars, balconyVars, serviceVars,
            outcomeVars, Control, MutexOwner, Phases, Closing, Emptiness, Hands, Exits, Starting, ServiceLoop,
            Joined, Ending, Holding, NoPhantomRequest, NoAbortInService
<1>1. CASE UserOpen(u)
  BY <1>1 DEF UserOpen
<1>2. CASE UserFindsServerDown(u)
  BY <1>2 DEF UserFindsServerDown
<1>3. CASE UserSend(u)
  BY <1>3 DEF UserSend
<1>4. CASE UserKilled(u)
  BY <1>4 DEF UserKilled
<1>5. CASE UserLeave(u)
  BY <1>5 DEF UserLeave
<1>6. QED
  BY <1>1, <1>2, <1>3, <1>4, <1>5 DEF UserStep

\* The main thread.
LEMMA MainControl ==
    ASSUME IInv, MainStep
    PROVE  Control' /\ NoPhantomRequest' /\ NoAbortInService'
<1> USE NamesAssumption
    DEF IInv, TypeOK, MainAt, Running, fifoVars, queueVars, balconyVars, serviceVars, outcomeVars,
        Control, MutexOwner, Phases, Closing, Emptiness, Hands, Exits, Starting, ServiceLoop,
            Joined, Ending, Holding, NoPhantomRequest, NoAbortInService
<1>1. CASE \E b \in Balconies : CreateBalcony(b)
  BY <1>1 DEF CreateBalcony
<1>2. CASE AllocateDatabase
  BY <1>2 DEF AllocateDatabase
<1>3. CASE CreateAdmin
  BY <1>3 DEF CreateAdmin
<1>4. CASE OpenFifo
  BY <1>4 DEF OpenFifo
<1>5. CASE OpenDummy
  BY <1>5 DEF OpenDummy
<1>6. CASE ReadRequest
  BY <1>6, HeadTailProperties DEF ReadRequest, READ_OK
<1>7. CASE ReadEndOfFile
  BY <1>7 DEF ReadEndOfFile, READ_EOF, HasWriter
<1>8. CASE CheckRequest
  BY <1>8 DEF CheckRequest
<1>9. CASE MainWaitEmpty
  BY <1>9 DEF MainWaitEmpty
<1>10. CASE MainLock
  BY <1>10 DEF MainLock
<1>11. CASE MainPush
  BY <1>11 DEF MainPush
<1>12. CASE MainPostFull
  BY <1>12 DEF MainPostFull
<1>13. CASE MainPostFinal
  BY <1>13 DEF MainPostFinal
<1>14. CASE MainJoin
  BY <1>14 DEF MainJoin
<1>15. CASE MainCleanup
  BY <1>15 DEF MainCleanup
<1>16. CASE MainClose
  BY <1>16 DEF MainClose
<1>17. CASE MainExit
  BY <1>17 DEF MainExit
<1>18. QED
  BY <1>1, <1>2, <1>3, <1>4, <1>5, <1>6, <1>7, <1>8, <1>9, <1>10, <1>11, <1>12,
     <1>13, <1>14, <1>15, <1>16, <1>17 DEF MainStep

\* The balconies.
LEMMA BalconyControl ==
    ASSUME IInv, NEW b \in Balconies, BalconyStep(b)
    PROVE  Control' /\ NoPhantomRequest' /\ NoAbortInService'
<1> USE NamesAssumption
    DEF IInv, TypeOK, BalconyAt, Goto, Running, fifoVars, mainVars, queueVars, serviceVars, outcomeVars,
        Control, MutexOwner, Phases, Closing, Emptiness, Hands, Exits, Starting, ServiceLoop,
            Joined, Ending, Holding, NoPhantomRequest, NoAbortInService
<1>1. CASE WaitFull(b)
  BY <1>1 DEF WaitFull
<1>2. CASE LockToCheck(b)
  BY <1>2 DEF LockToCheck
<1>3. CASE CheckQueue(b)
  BY <1>3, PassedTheSemaphore DEF CheckQueue, Accounting
<1>4. CASE Decide(b)
  BY <1>4 DEF Decide
<1>5. CASE IncreaseActiveOffices(b)
  BY <1>5 DEF IncreaseActiveOffices
<1>6. CASE LockToTake(b)
  BY <1>6 DEF LockToTake
<1>7. CASE Take(b)
  BY <1>7 DEF Take
<1>8. CASE TakeNothing(b)
  BY <1>8, PassedTheSemaphore DEF TakeNothing, balconyVars, Accounting
<1>9. CASE PostEmpty(b)
  BY <1>9 DEF PostEmpty
<1>10. CASE ServeAccounts(b)
  BY <1>10 DEF ServeAccounts
<1>11. CASE ShutdownFlag(b)
  BY <1>11 DEF ShutdownFlag
<1>12. CASE ShutdownClose(b)
  BY <1>12 DEF ShutdownClose
<1>13. CASE ShutdownMode(b)
  BY <1>13 DEF ShutdownMode
<1>14. CASE SendReply(b)
  BY <1>14 DEF SendReply
<1>15. CASE DecreaseActiveOffices(b)
  BY <1>15 DEF DecreaseActiveOffices
<1>16. QED
  BY <1>1, <1>2, <1>3, <1>4, <1>5, <1>6, <1>7, <1>8, <1>9, <1>10, <1>11, <1>12,
     <1>13, <1>14, <1>15 DEF BalconyStep

-----------------------------------------------------------------------------
(* Accounting.                                                             *)

\* The counts of balconies that the three equations are about.
Claimed == Cardinality(BalconiesAt({"post_empty"}))
Passed == Cardinality(BalconiesAt({"lock_check", "check", "decide", "increase",
                                   "lock_take", "take", "done"}))
Active == Cardinality(BalconiesAt({"lock_take", "take", "post_empty", "serve",
                                   "close_dummy", "fchmod", "reply", "decrease"}))

\* The numbers of balconies that the sums are made of.
LEMMA CountTypes ==
    /\ Claimed \in Nat /\ Passed \in Nat /\ Active \in Nat
    /\ n_threads \in Nat
BY CountPositive, BalconiesAssumption, FS_CardinalityType DEF Claimed, Passed, Active, n_threads

\* The counts do not change with a step that moves no balcony.
LEMMA CountsStay ==
    ASSUME bpc' = bpc
    PROVE  Claimed' = Claimed /\ Passed' = Passed /\ Active' = Active
BY DEF Claimed, Passed, Active, BalconiesAt

\* How they change with one that moves a balcony.
LEMMA CountsMove ==
    ASSUME TypeOK, NEW b \in Balconies, NEW l, Goto(b, l)
    PROVE  /\ Claimed' = Claimed + One(l \in {"post_empty"}) - One(bpc[b] \in {"post_empty"})
           /\ Passed' = Passed
                + One(l \in {"lock_check", "check", "decide", "increase", "lock_take",
                             "take", "done"})
                - One(bpc[b] \in {"lock_check", "check", "decide", "increase", "lock_take",
                                  "take", "done"})
           /\ Active' = Active
                + One(l \in {"lock_take", "take", "post_empty", "serve", "close_dummy",
                             "fchmod", "reply", "decrease"})
                - One(bpc[b] \in {"lock_take", "take", "post_empty", "serve", "close_dummy",
                                  "fchmod", "reply", "decrease"})
BY CountMoves DEF TypeOK, Claimed, Passed, Active

\* The equations in terms of these counts.
LEMMA AccountingCounts ==
    Accounting <=>
        /\ mpc \notin {"close", "unlink", "exited"} =>
               /\ empty + Len(queue) + One(mpc \in {"lock", "push"}) + Claimed = n_threads
               /\ full + Passed + One(mpc = "post_full") = Len(queue) + posted
        /\ active_offices = Active
BY DEF Accounting, EmptyAccounting, FullAccounting, ActiveOfficesExact, Claimed, Passed, Active

\* The sums of the semaphores in the next state, by those numbers.
LEMMA AccountingCountsPrime ==
    Accounting' <=>
        /\ mpc' \notin {"close", "unlink", "exited"} =>
               /\ empty' + Len(queue') + One(mpc' \in {"lock", "push"}) + Claimed' = n_threads
               /\ full' + Passed' + One(mpc' = "post_full") = Len(queue') + posted'
        /\ active_offices' = Active'
BY DEF Accounting, EmptyAccounting, FullAccounting, ActiveOfficesExact, Claimed, Passed, Active,
       n_threads

\* A user moves nothing of all this.
LEMMA UserAccounting ==
    ASSUME IInv, NEW u \in Users, UserStep(u)
    PROVE  Accounting'
<1>1. UNCHANGED <<mpc, posted, queue, full, empty, active_offices, bpc>>
  BY DEF UserStep, UserOpen, UserFindsServerDown, UserSend, UserKilled, UserLeave, mainVars,
         queueVars, balconyVars, serviceVars
<1>2. QED
  BY <1>1, CountsStay, AccountingCounts, AccountingCountsPrime DEF IInv

\* Main moves a unit from empty to the place that it claims, to the queue, to
\* full.
LEMMA MainAccounting ==
    ASSUME IInv, MainStep
    PROVE  Accounting'
<1> USE DEF MainAt, queueVars, balconyVars, serviceVars
<1>t. TypeOK /\ Accounting
  BY DEF IInv
<1>a. full \in Nat /\ empty \in Nat /\ posted \in Nat /\ Len(queue) \in Nat
  BY LenProperties DEF IInv, TypeOK
<1>1. CASE \E b \in Balconies : CreateBalcony(b)
  <2>1. PICK b \in Balconies : CreateBalcony(b)
    BY <1>1
  <2>2. Goto(b, "wait_full") /\ bpc[b] = "unborn"
    BY <2>1 DEF CreateBalcony, Goto
  <2>3. Claimed' = Claimed /\ Passed' = Passed /\ Active' = Active
    BY <2>2, <1>t, CountsMove, CountTypes DEF One
  <2>4. QED
    BY <2>1, <2>3, <1>t, <1>a, CountTypes,
       AccountingCounts, AccountingCountsPrime DEF CreateBalcony, One
<1>2. CASE AllocateDatabase
  BY <1>2, <1>t, <1>a, CountsStay, CountTypes,
     AccountingCounts, AccountingCountsPrime DEF AllocateDatabase, One
<1>3. CASE CreateAdmin
  BY <1>3, <1>t, <1>a, CountsStay, CountTypes,
     AccountingCounts, AccountingCountsPrime DEF CreateAdmin, One
<1>4. CASE OpenFifo
  BY <1>4, <1>t, <1>a, CountsStay, CountTypes,
     AccountingCounts, AccountingCountsPrime DEF OpenFifo, One
<1>5. CASE OpenDummy
  BY <1>5, <1>t, <1>a, CountsStay, CountTypes,
     AccountingCounts, AccountingCountsPrime DEF OpenDummy, One
<1>6. CASE ReadRequest
  BY <1>6, <1>t, <1>a, CountsStay, CountTypes,
     AccountingCounts, AccountingCountsPrime DEF ReadRequest, One
<1>7. CASE ReadEndOfFile
  BY <1>7, <1>t, <1>a, CountsStay, CountTypes,
     AccountingCounts, AccountingCountsPrime DEF ReadEndOfFile, One
<1>8. CASE CheckRequest
  BY <1>8, <1>t, <1>a, CountsStay, CountTypes,
     AccountingCounts, AccountingCountsPrime DEF CheckRequest, One
<1>9. CASE MainWaitEmpty
  BY <1>9, <1>t, <1>a, CountsStay, CountTypes,
     AccountingCounts, AccountingCountsPrime DEF MainWaitEmpty, One
<1>10. CASE MainLock
  BY <1>10, <1>t, <1>a, CountsStay, CountTypes,
     AccountingCounts, AccountingCountsPrime DEF MainLock, One
<1>11. CASE MainPush
  <2>1. Len(queue') = Len(queue) + 1
    BY <1>11, <1>t, AppendProperties DEF MainPush, NoPhantomRequest, IInv, TypeOK
  <2>2. QED
    BY <1>11, <2>1, <1>t, <1>a, CountsStay, CountTypes,
       AccountingCounts, AccountingCountsPrime DEF MainPush, One
<1>12. CASE MainPostFull
  BY <1>12, <1>t, <1>a, CountsStay, CountTypes,
     AccountingCounts, AccountingCountsPrime DEF MainPostFull, One
<1>13. CASE MainPostFinal
  BY <1>13, <1>t, <1>a, CountsStay, CountTypes,
     AccountingCounts, AccountingCountsPrime DEF MainPostFinal, One
<1>14. CASE MainJoin
  BY <1>14, <1>t, <1>a, CountsStay, CountTypes,
     AccountingCounts, AccountingCountsPrime DEF MainJoin, One
<1>15. CASE MainCleanup
  BY <1>15, <1>t, <1>a, CountsStay, CountTypes,
     AccountingCounts, AccountingCountsPrime DEF MainCleanup, One
<1>16. CASE MainClose
  BY <1>16, <1>t, <1>a, CountsStay, CountTypes,
     AccountingCounts, AccountingCountsPrime DEF MainClose, One
<1>17. CASE MainExit
  BY <1>17, <1>t, <1>a, CountsStay, CountTypes,
     AccountingCounts, AccountingCountsPrime DEF MainExit, One
<1>18. QED
  BY <1>1, <1>2, <1>3, <1>4, <1>5, <1>6, <1>7, <1>8, <1>9, <1>10, <1>11, <1>12,
     <1>13, <1>14, <1>15, <1>16, <1>17 DEF MainStep

\* A balcony moves one from full to itself and, when it has taken a request,
\* from the queue through itself back to empty.
LEMMA BalconyAccounting ==
    ASSUME IInv, NEW b \in Balconies, BalconyStep(b)
    PROVE  Accounting'
<1> USE DEF mainVars, queueVars, balconyVars, serviceVars
<1>t. TypeOK /\ Accounting
  BY DEF IInv
<1>a. full \in Nat /\ empty \in Nat /\ posted \in Nat /\ Len(queue) \in Nat
  BY LenProperties DEF IInv, TypeOK
<1>1. CASE WaitFull(b)
  <2>1. bpc[b] = "wait_full" /\ Goto(b, "lock_check")
    BY <1>1 DEF WaitFull, BalconyAt
  <2>2. Claimed' = Claimed /\ Passed' = Passed + 1 /\ Active' = Active
    BY <2>1, <1>t, CountsMove, CountTypes DEF One
  <2>3. QED
    BY <1>1, <2>2, <1>t, <1>a, CountTypes,
       AccountingCounts, AccountingCountsPrime DEF WaitFull, One
<1>2. CASE LockToCheck(b)
  <2>1. bpc[b] = "lock_check" /\ Goto(b, "check")
    BY <1>2 DEF LockToCheck, BalconyAt
  <2>2. Claimed' = Claimed /\ Passed' = Passed /\ Active' = Active
    BY <2>1, <1>t, CountsMove, CountTypes DEF One
  <2>3. QED
    BY <1>2, <2>2, <1>t, <1>a, CountTypes,
       AccountingCounts, AccountingCountsPrime DEF LockToCheck, One
<1>3. CASE CheckQueue(b)
  <2>1. bpc[b] = "check" /\ Goto(b, "decide")
    BY <1>3 DEF CheckQueue, BalconyAt
  <2>2. Claimed' = Claimed /\ Passed' = Passed /\ Active' = Active
    BY <2>1, <1>t, CountsMove, CountTypes DEF One
  <2>3. QED
    BY <1>3, <2>2, <1>t, <1>a, CountTypes,
       AccountingCounts, AccountingCountsPrime DEF CheckQueue, One
<1>4. CASE Decide(b)
  <2>1. bpc[b] = "decide" /\ \E l \in {"done", "increase"} : Goto(b, l)
    BY <1>4 DEF Decide, BalconyAt
  <2>2. Claimed' = Claimed /\ Passed' = Passed /\ Active' = Active
    BY <2>1, <1>t, CountsMove, CountTypes DEF One
  <2>3. QED
    BY <1>4, <2>2, <1>t, <1>a, CountTypes,
       AccountingCounts, AccountingCountsPrime DEF Decide, One
<1>5. CASE IncreaseActiveOffices(b)
  <2>1. bpc[b] = "increase" /\ Goto(b, "lock_take")
    BY <1>5 DEF IncreaseActiveOffices, BalconyAt
  <2>2. Claimed' = Claimed /\ Passed' = Passed /\ Active' = Active + 1
    BY <2>1, <1>t, CountsMove, CountTypes DEF One
  <2>3. QED
    BY <1>5, <2>2, <1>t, <1>a, CountTypes,
       AccountingCounts, AccountingCountsPrime DEF IncreaseActiveOffices, One
<1>6. CASE LockToTake(b)
  <2>1. bpc[b] = "lock_take" /\ Goto(b, "take")
    BY <1>6 DEF LockToTake, BalconyAt
  <2>2. Claimed' = Claimed /\ Passed' = Passed /\ Active' = Active
    BY <2>1, <1>t, CountsMove, CountTypes DEF One
  <2>3. QED
    BY <1>6, <2>2, <1>t, <1>a, CountTypes,
       AccountingCounts, AccountingCountsPrime DEF LockToTake, One
<1>7. CASE Take(b)
  <2>1. bpc[b] = "take" /\ Goto(b, "post_empty")
    BY <1>7 DEF Take, BalconyAt
  <2>2. Claimed' = Claimed + 1 /\ Passed' = Passed - 1 /\ Active' = Active
    BY <2>1, <1>t, CountsMove, CountTypes DEF One
  <2>3. Len(queue') = Len(queue) - 1 /\ Len(queue) \in Nat
    BY <1>7, <1>t, HeadTailProperties, LenProperties DEF Take, TypeOK
  <2>4. QED
    BY <1>7, <2>2, <2>3, <1>t, <1>a, CountTypes,
       AccountingCounts, AccountingCountsPrime DEF Take, One
<1>8. CASE TakeNothing(b)
  BY <1>8, <1>t, CountsStay, AccountingCounts, AccountingCountsPrime DEF TakeNothing
<1>9. CASE PostEmpty(b)
  <2>1. bpc[b] = "post_empty" /\ Goto(b, "serve")
    BY <1>9 DEF PostEmpty, BalconyAt
  <2>2. Claimed' = Claimed - 1 /\ Passed' = Passed /\ Active' = Active
    BY <2>1, <1>t, CountsMove, CountTypes DEF One
  <2>3. QED
    BY <1>9, <2>2, <1>t, <1>a, CountTypes,
       AccountingCounts, AccountingCountsPrime DEF PostEmpty, One
<1>10. CASE ServeAccounts(b)
  <2>1. bpc[b] = "serve" /\ Goto(b, "reply")
    BY <1>10 DEF ServeAccounts, BalconyAt
  <2>2. Claimed' = Claimed /\ Passed' = Passed /\ Active' = Active
    BY <2>1, <1>t, CountsMove, CountTypes DEF One
  <2>3. QED
    BY <1>10, <2>2, <1>t, <1>a, CountTypes,
       AccountingCounts, AccountingCountsPrime DEF ServeAccounts, One
<1>11. CASE ShutdownFlag(b)
  <2>1. bpc[b] = "serve" /\ Goto(b, "close_dummy")
    BY <1>11 DEF ShutdownFlag, BalconyAt
  <2>2. Claimed' = Claimed /\ Passed' = Passed /\ Active' = Active
    BY <2>1, <1>t, CountsMove, CountTypes DEF One
  <2>3. QED
    BY <1>11, <2>2, <1>t, <1>a, CountTypes,
       AccountingCounts, AccountingCountsPrime DEF ShutdownFlag, One
<1>12. CASE ShutdownClose(b)
  <2>1. bpc[b] = "close_dummy" /\ \E l \in {"fchmod", "reply"} : Goto(b, l)
    BY <1>12 DEF ShutdownClose, BalconyAt
  <2>2. Claimed' = Claimed /\ Passed' = Passed /\ Active' = Active
    BY <2>1, <1>t, CountsMove, CountTypes DEF One
  <2>3. QED
    BY <1>12, <2>2, <1>t, <1>a, CountTypes,
       AccountingCounts, AccountingCountsPrime DEF ShutdownClose, One
<1>13. CASE ShutdownMode(b)
  <2>1. bpc[b] = "fchmod" /\ Goto(b, "reply")
    BY <1>13 DEF ShutdownMode, BalconyAt
  <2>2. Claimed' = Claimed /\ Passed' = Passed /\ Active' = Active
    BY <2>1, <1>t, CountsMove, CountTypes DEF One
  <2>3. QED
    BY <1>13, <2>2, <1>t, <1>a, CountTypes,
       AccountingCounts, AccountingCountsPrime DEF ShutdownMode, One
<1>14. CASE SendReply(b)
  <2>1. bpc[b] = "reply" /\ Goto(b, "decrease")
    BY <1>14 DEF SendReply, BalconyAt
  <2>2. Claimed' = Claimed /\ Passed' = Passed /\ Active' = Active
    BY <2>1, <1>t, CountsMove, CountTypes DEF One
  <2>3. QED
    BY <1>14, <2>2, <1>t, <1>a, CountTypes,
       AccountingCounts, AccountingCountsPrime DEF SendReply, One
<1>15. CASE DecreaseActiveOffices(b)
  <2>1. bpc[b] = "decrease" /\ Goto(b, "wait_full")
    BY <1>15 DEF DecreaseActiveOffices, BalconyAt
  <2>2. Claimed' = Claimed /\ Passed' = Passed /\ Active' = Active - 1
    BY <2>1, <1>t, CountsMove, CountTypes DEF One
  <2>3. QED
    BY <1>15, <2>2, <1>t, <1>a, CountTypes,
       AccountingCounts, AccountingCountsPrime DEF DecreaseActiveOffices, One
<1>16. QED
  BY <1>1, <1>2, <1>3, <1>4, <1>5, <1>6, <1>7, <1>8, <1>9, <1>10, <1>11, <1>12,
     <1>13, <1>14, <1>15 DEF BalconyStep

-----------------------------------------------------------------------------
(* One copy.                                                               *)

\* How many balconies have the request of u in hand.
InHands(u) == Cardinality({b \in Balconies : first_request[b] = u})

\* In how many hands a user is when one balcony takes or leaves a request.
LEMMA InHandsMoves ==
    ASSUME first_request \in [Balconies -> Users \cup {NoRequest}], NEW u, NEW r,
           NEW b \in Balconies, first_request' = [first_request EXCEPT ![b] = r]
    PROVE  /\ InHands(u) \in Nat
           /\ InHands(u)' = InHands(u) + One(r = u) - One(first_request[b] = u)
<1> DEFINE Before == {c \in Balconies : first_request[c] = u}
           After == {c \in Balconies : first_request'[c] = u}
<1>1. IsFiniteSet(Before) /\ Cardinality(Before) \in Nat
  BY BalconiesAssumption, FS_Subset, FS_CardinalityType
<1>2. After = IF r = u THEN Before \cup {b} ELSE Before \ {b}
  OBVIOUS
<1>3. b \in Before <=> first_request[b] = u
  OBVIOUS
<1> HIDE DEF Before, After
<1>4. /\ Cardinality(Before \cup {b}) = IF b \in Before THEN Cardinality(Before)
                                        ELSE Cardinality(Before) + 1
      /\ Cardinality(Before \ {b}) = IF b \in Before THEN Cardinality(Before) - 1
                                     ELSE Cardinality(Before)
  BY <1>1, FS_AddElement, FS_RemoveElement
<1>5. Cardinality(After) = Cardinality(Before) + One(r = u) - One(first_request[b] = u)
  BY <1>1, <1>2, <1>3, <1>4 DEF One
<1>6. QED
  BY <1>1, <1>5 DEF Before, After, InHands

\* That is a number.
LEMMA InHandsType == \A u : InHands(u) \in Nat
<1> SUFFICES ASSUME NEW u
             PROVE  InHands(u) \in Nat
  OBVIOUS
<1>1. IsFiniteSet({b \in Balconies : first_request[b] = u})
  BY BalconiesAssumption, FS_Subset
<1>2. QED
  BY <1>1, FS_CardinalityType DEF InHands

\* The copies of a request, one term for each place.
LEMMA CopiesSum ==
    ASSUME NEW u
    PROVE  /\ Copies(u) = Occurrences(fifo, u) + One(request = u) + Occurrences(queue, u)
                          + InHands(u) + One(u \in discarded) + replies[u]
           /\ Copies(u)' = Occurrences(fifo', u) + One(request' = u) + Occurrences(queue', u)
                           + InHands(u)' + One(u \in discarded') + replies'[u]
BY DEF Copies, Occurrences, InHands

\* So is each place that OneCopy adds up.
LEMMA CopiesTypes ==
    ASSUME TypeOK, NEW u \in Users
    PROVE  /\ Occurrences(fifo, u) \in Nat /\ One(request = u) \in Nat
           /\ Occurrences(queue, u) \in Nat /\ InHands(u) \in Nat
           /\ One(u \in discarded) \in Nat /\ replies[u] \in Nat
<1>1. Occurrences(fifo, u) \in Nat /\ Occurrences(queue, u) \in Nat
  BY OccurrencesType DEF TypeOK
<1>2. QED
  BY <1>1, InHandsType DEF TypeOK, One

\* Nothing happens to the copies of a request while none of these places, and
\* what its user has done, changes.
LEMMA CopiesStay ==
    ASSUME OneCopy,
           UNCHANGED <<fifo, request, queue, first_request, discarded, replies>>,
           \A u \in Users : One(upc'[u] \in {"sent", "left"}) = One(upc[u] \in {"sent", "left"})
    PROVE  OneCopy'
<1> SUFFICES ASSUME NEW u \in Users
             PROVE  Copies(u)' = One(upc'[u] \in {"sent", "left"})
  BY DEF OneCopy
<1>1. InHands(u)' = InHands(u)
  BY DEF InHands
<1>2. Copies(u)' = Copies(u)
  BY <1>1, CopiesSum
<1>3. QED
  BY <1>2 DEF OneCopy

\* A user puts its only copy in the FIFO.
LEMMA UserCopies ==
    ASSUME IInv, NEW u \in Users, UserStep(u)
    PROVE  OneCopy'
<1>t. TypeOK /\ OneCopy
  BY DEF IInv
<1>1. CASE UserOpen(u)
  BY <1>1, <1>t, CopiesStay DEF UserOpen, UserGoto, TypeOK, UserPoints, One,
         fifoVars, mainVars, queueVars, balconyVars, outcomeVars
<1>2. CASE UserFindsServerDown(u)
  BY <1>2, <1>t, CopiesStay DEF UserFindsServerDown, UserGoto, TypeOK, UserPoints, One,
         fifoVars, mainVars, queueVars, balconyVars, outcomeVars
<1>3. CASE UserSend(u)
  <2>1. CASE ~reader
    BY <1>3, <1>t, <2>1, CopiesStay
    DEF UserSend, UserGoto, TypeOK, UserPoints, One, mainVars, queueVars, balconyVars,
        outcomeVars
  <2>2. CASE reader
    <3> SUFFICES ASSUME NEW w \in Users
                 PROVE  Copies(w)' = One(upc'[w] \in {"sent", "left"})
      BY DEF OneCopy
    <3>1. /\ fifo' = Append(fifo, u)
          /\ UNCHANGED <<request, queue, first_request, discarded, replies>>
          /\ upc[u] = "opened" /\ upc' = [upc EXCEPT ![u] = "sent"]
      BY <1>3, <2>2 DEF UserSend, UserGoto, mainVars, queueVars, balconyVars, outcomeVars
    <3>2. Occurrences(Append(fifo, u), w) = Occurrences(fifo, w) + One(u = w)
      BY <1>t, OccurrencesAppend DEF TypeOK
    <3>3. InHands(w)' = InHands(w)
      BY <3>1 DEF InHands
    <3>4. Copies(w)' = Copies(w) + One(u = w)
      <4>1. Copies(w) = Occurrences(fifo, w) + One(request = w) + Occurrences(queue, w)
                        + InHands(w) + One(w \in discarded) + replies[w]
        BY CopiesSum
      <4>2. Copies(w)' = Occurrences(fifo, w) + One(u = w) + One(request = w)
                         + Occurrences(queue, w) + InHands(w) + One(w \in discarded)
                         + replies[w]
        BY <3>1, <3>2, <3>3, CopiesSum
      <4>3. One(u = w) \in Nat
        BY DEF One
      <4>4. QED
        BY <4>1, <4>2, <4>3, <1>t, CopiesTypes
    <3>5. One(upc'[w] \in {"sent", "left"}) = One(upc[w] \in {"sent", "left"}) + One(u = w)
      BY <3>1, <1>t DEF TypeOK, UserPoints, One
    <3>6. QED
      BY <3>4, <3>5, <1>t DEF OneCopy
  <2>3. QED
    BY <2>1, <2>2
<1>4. CASE UserKilled(u)
  BY <1>4, <1>t, CopiesStay DEF UserKilled, UserGoto, TypeOK, UserPoints, One,
         fifoVars, mainVars, queueVars, balconyVars, outcomeVars
<1>5. CASE UserLeave(u)
  BY <1>5, <1>t, CopiesStay DEF UserLeave, UserGoto, TypeOK, UserPoints, One,
         fifoVars, mainVars, queueVars, balconyVars, outcomeVars
<1>6. QED
  BY <1>1, <1>2, <1>3, <1>4, <1>5 DEF UserStep

\* Main reads it into its own variable, and puts it in the queue or drops it
\* for good.  When it frees the queue nothing is left in it.
LEMMA MainCopies ==
    ASSUME IInv, MainStep
    PROVE  OneCopy'
<1>t. TypeOK /\ OneCopy /\ Hands /\ Emptiness /\ Phases /\ NoPhantomRequest
  BY DEF IInv, Control
<1>1. CASE \E b \in Balconies : CreateBalcony(b)
  BY <1>1, <1>t, CopiesStay DEF CreateBalcony, fifoVars, queueVars, balconyVars,
                                     outcomeVars
<1>2. CASE AllocateDatabase
  BY <1>2, <1>t, CopiesStay DEF AllocateDatabase, fifoVars, queueVars, balconyVars,
                                     outcomeVars
<1>3. CASE CreateAdmin
  BY <1>3, <1>t, CopiesStay DEF CreateAdmin, fifoVars, queueVars, balconyVars,
                                     outcomeVars
<1>4. CASE OpenFifo
  BY <1>4, <1>t, CopiesStay DEF OpenFifo, fifoVars, queueVars, balconyVars,
                                     outcomeVars
<1>5. CASE OpenDummy
  BY <1>5, <1>t, CopiesStay DEF OpenDummy, fifoVars, queueVars, balconyVars,
                                     outcomeVars
<1>6. CASE ReadRequest
  <2> SUFFICES ASSUME NEW u \in Users
               PROVE  Copies(u)' = Copies(u)
    BY <1>6, <1>t DEF ReadRequest, OneCopy
  <2>1. /\ fifo # <<>> /\ fifo' = Tail(fifo)
        /\ request = NoRequest /\ request' = Head(fifo)
        /\ UNCHANGED <<queue, first_request, discarded, replies>>
    BY <1>6, <1>t DEF ReadRequest, MainAt, Hands, queueVars, balconyVars, outcomeVars
  <2>2. Occurrences(fifo, u) = Occurrences(Tail(fifo), u) + One(Head(fifo) = u)
    BY <2>1, <1>t, OccurrencesTail DEF TypeOK
  <2>3. Occurrences(Tail(fifo), u) \in Nat
    BY <2>1, <1>t, HeadTailProperties, OccurrencesType DEF TypeOK
  <2>4. InHands(u)' = InHands(u) /\ One(request = u) = 0
    BY <2>1, NamesAssumption DEF InHands, One
  <2>5. QED
    BY <2>1, <2>2, <2>3, <2>4, <1>t, CopiesSum, CopiesTypes DEF One
<1>7. CASE ReadEndOfFile
  BY <1>7, <1>t, CopiesStay DEF ReadEndOfFile, fifoVars, queueVars, balconyVars,
                                     outcomeVars
<1>8. CASE CheckRequest
  <2>1. CASE balcony_open
    BY <1>8, <2>1, <1>t, CopiesStay DEF CheckRequest, fifoVars, queueVars, balconyVars
  <2>2. CASE ~balcony_open
    <3> SUFFICES ASSUME NEW u \in Users
                 PROVE  Copies(u)' = Copies(u)
      BY <1>8, <1>t DEF CheckRequest, OneCopy
    <3>1. /\ discarded' = discarded \cup ({request} \ {NoRequest})
          /\ request' = NoRequest
          /\ UNCHANGED <<fifo, queue, first_request, replies>>
      BY <1>8, <1>t, <2>2 DEF CheckRequest, Hands, fifoVars, queueVars, balconyVars
    <3>2. Copies(u) \in {0, 1}
      BY <1>t DEF OneCopy, One
    <3>3. ~ (request = u /\ u \in discarded)
      BY <3>2, <1>t, CopiesSum, CopiesTypes DEF One
    <3>4. One(request' = u) + One(u \in discarded') = One(request = u) + One(u \in discarded)
      BY <3>1, <3>3, NamesAssumption DEF One
    <3>5. InHands(u)' = InHands(u)
      BY <3>1 DEF InHands
    <3>6. One(request' = u) \in Nat /\ One(u \in discarded') \in Nat
      BY DEF One
    <3>7. QED
      BY <3>1, <3>4, <3>5, <3>6, <1>t, CopiesSum, CopiesTypes
  <2>3. QED
    BY <2>1, <2>2, <1>t DEF TypeOK
<1>9. CASE MainWaitEmpty
  BY <1>9, <1>t, CopiesStay DEF MainWaitEmpty, fifoVars, queueVars, balconyVars,
                                     outcomeVars
<1>10. CASE MainLock
  BY <1>10, <1>t, CopiesStay DEF MainLock, fifoVars, queueVars, balconyVars,
                                     outcomeVars
<1>11. CASE MainPush
  <2> SUFFICES ASSUME NEW u \in Users
               PROVE  Copies(u)' = Copies(u)
    BY <1>11, <1>t DEF MainPush, OneCopy
  <2>1. /\ queue' = Append(queue, request)
        /\ request \in Users /\ request' = NoRequest
        /\ UNCHANGED <<fifo, first_request, discarded, replies>>
    BY <1>11, <1>t DEF MainPush, MainAt, NoPhantomRequest, TypeOK, fifoVars, balconyVars, outcomeVars
  <2>2. Occurrences(Append(queue, request), u) = Occurrences(queue, u) + One(request = u)
    BY <2>1, <1>t, OccurrencesAppend DEF TypeOK
  <2>3. InHands(u)' = InHands(u) /\ One(request' = u) = 0
    BY <2>1, NamesAssumption DEF InHands, One
  <2>4. QED
    BY <2>1, <2>2, <2>3, <1>t, CopiesSum, CopiesTypes
<1>12. CASE MainPostFull
  BY <1>12, <1>t, CopiesStay DEF MainPostFull, fifoVars, queueVars, balconyVars,
                                     outcomeVars
<1>13. CASE MainPostFinal
  BY <1>13, <1>t, CopiesStay DEF MainPostFinal, fifoVars, queueVars, balconyVars,
                                     outcomeVars
<1>14. CASE MainJoin
  BY <1>14, <1>t, CopiesStay DEF MainJoin, fifoVars, queueVars, balconyVars,
                                     outcomeVars
<1>15. CASE MainCleanup
  <2>1. PICK b \in Balconies : bpc[b] = "done"
    BY <1>15, <1>t, BalconiesAssumption DEF MainCleanup, MainAt, Phases, Joined
  <2>2. queue = <<>> /\ queue' = <<>>
    BY <1>15, <2>1, <1>t DEF MainCleanup, Emptiness
  <2>3. QED
    BY <1>15, <2>2, <1>t, CopiesStay DEF MainCleanup, fifoVars, balconyVars, outcomeVars
<1>16. CASE MainClose
  BY <1>16, <1>t, CopiesStay DEF MainClose, fifoVars, queueVars, balconyVars,
                                     outcomeVars
<1>17. CASE MainExit
  BY <1>17, <1>t, CopiesStay DEF MainExit, fifoVars, queueVars, balconyVars,
                                     outcomeVars
<1>18. QED
  BY <1>1, <1>2, <1>3, <1>4, <1>5, <1>6, <1>7, <1>8, <1>9, <1>10, <1>11, <1>12,
     <1>13, <1>14, <1>15, <1>16, <1>17 DEF MainStep

\* A balcony takes it out of the queue, and ends it with a reply.
LEMMA BalconyCopies ==
    ASSUME IInv, NEW b \in Balconies, BalconyStep(b)
    PROVE  OneCopy'
<1>t. TypeOK /\ OneCopy /\ Hands
  BY DEF IInv, Control
<1>m. ASSUME NEW u, NEW r, first_request' = [first_request EXCEPT ![b] = r]
      PROVE  InHands(u)' = InHands(u) + One(r = u) - One(first_request[b] = u)
  <2>1. first_request \in [Balconies -> Users \cup {NoRequest}]
    BY <1>t DEF TypeOK
  <2>2. QED
    BY <2>1, <1>m, InHandsMoves
<1>1. CASE WaitFull(b)
  BY <1>1, <1>t, CopiesStay DEF WaitFull, fifoVars, mainVars, queueVars, balconyVars,
                                    outcomeVars
<1>2. CASE LockToCheck(b)
  BY <1>2, <1>t, CopiesStay DEF LockToCheck, fifoVars, mainVars, queueVars, balconyVars,
                                    outcomeVars
<1>3. CASE CheckQueue(b)
  BY <1>3, <1>t, CopiesStay DEF CheckQueue, fifoVars, mainVars, queueVars, balconyVars,
                                    outcomeVars
<1>4. CASE Decide(b)
  BY <1>4, <1>t, CopiesStay DEF Decide, fifoVars, mainVars, queueVars, balconyVars,
                                    outcomeVars
<1>5. CASE IncreaseActiveOffices(b)
  BY <1>5, <1>t, CopiesStay DEF IncreaseActiveOffices, fifoVars, mainVars, queueVars, balconyVars,
                                    outcomeVars
<1>6. CASE LockToTake(b)
  BY <1>6, <1>t, CopiesStay DEF LockToTake, fifoVars, mainVars, queueVars, balconyVars,
                                    outcomeVars
<1>7. CASE Take(b)
  <2> SUFFICES ASSUME NEW u \in Users
               PROVE  Copies(u)' = Copies(u)
    BY <1>7, <1>t DEF Take, OneCopy
  <2>1. /\ queue # <<>> /\ queue' = Tail(queue)
        /\ first_request[b] = NoRequest
        /\ first_request' = [first_request EXCEPT ![b] = Head(queue)]
        /\ UNCHANGED <<fifo, request, discarded, replies>>
    BY <1>7, <1>t DEF Take, BalconyAt, Hands, Holding, fifoVars, mainVars, outcomeVars
  <2>2. Occurrences(queue, u) = Occurrences(Tail(queue), u) + One(Head(queue) = u)
    BY <2>1, <1>t, OccurrencesTail DEF TypeOK
  <2>3. Occurrences(Tail(queue), u) \in Nat
    BY <2>1, <1>t, HeadTailProperties, OccurrencesType DEF TypeOK
  <2>4. InHands(u)' = InHands(u) + One(Head(queue) = u) - One(first_request[b] = u)
    BY <2>1, <1>m
  <2>5. One(first_request[b] = u) = 0
    BY <2>1, NamesAssumption DEF One
  <2>6. One(Head(queue) = u) \in Nat
    BY DEF One
  <2>7. QED
    BY <2>1, <2>2, <2>3, <2>4, <2>5, <2>6, <1>t, CopiesSum, CopiesTypes
<1>8. CASE TakeNothing(b)
  BY <1>8, <1>t, CopiesStay DEF TakeNothing, fifoVars, mainVars, queueVars, balconyVars,
                                    outcomeVars
<1>9. CASE PostEmpty(b)
  BY <1>9, <1>t, CopiesStay DEF PostEmpty, fifoVars, mainVars, queueVars, balconyVars,
                                    outcomeVars
<1>10. CASE ServeAccounts(b)
  BY <1>10, <1>t, CopiesStay DEF ServeAccounts, fifoVars, mainVars, queueVars, balconyVars,
                                    outcomeVars
<1>11. CASE ShutdownFlag(b)
  BY <1>11, <1>t, CopiesStay DEF ShutdownFlag, fifoVars, mainVars, queueVars, balconyVars,
                                    outcomeVars
<1>12. CASE ShutdownClose(b)
  BY <1>12, <1>t, CopiesStay DEF ShutdownClose, fifoVars, mainVars, queueVars, balconyVars,
                                    outcomeVars
<1>13. CASE ShutdownMode(b)
  BY <1>13, <1>t, CopiesStay DEF ShutdownMode, fifoVars, mainVars, queueVars, balconyVars,
                                    outcomeVars
<1>14. CASE SendReply(b)
  <2> SUFFICES ASSUME NEW u \in Users
               PROVE  Copies(u)' = Copies(u)
    BY <1>14, <1>t DEF SendReply, OneCopy
  <2>1. /\ first_request[b] \in Users
        /\ first_request' = [first_request EXCEPT ![b] = NoRequest]
        /\ replies' = [replies EXCEPT ![first_request[b]] = @ + 1]
        /\ UNCHANGED <<fifo, request, queue, discarded>>
    BY <1>14, <1>t DEF SendReply, BalconyAt, Hands, Holding, TypeOK, fifoVars, mainVars, queueVars
  <2>2. InHands(u)' = InHands(u) + One(NoRequest = u) - One(first_request[b] = u)
    BY <2>1, <1>m
  <2>3. One(NoRequest = u) = 0
    BY NamesAssumption DEF One
  <2>4. replies'[u] = replies[u] + One(first_request[b] = u)
    BY <2>1, <1>t, CopiesTypes DEF TypeOK, One
  <2>5. QED
    BY <2>1, <2>2, <2>3, <2>4, <1>t, CopiesSum, CopiesTypes DEF One
<1>15. CASE DecreaseActiveOffices(b)
  BY <1>15, <1>t, CopiesStay DEF DecreaseActiveOffices, fifoVars, mainVars, queueVars, balconyVars,
                                    outcomeVars
<1>16. QED
  BY <1>1, <1>2, <1>3, <1>4, <1>5, <1>6, <1>7, <1>8, <1>9, <1>10, <1>11, <1>12,
     <1>13, <1>14, <1>15 DEF BalconyStep

-----------------------------------------------------------------------------
(* The theorems.                                                           *)

\* The invariant holds at the start, ...
LEMMA InitInvariant == Init => IInv
<1> SUFFICES ASSUME Init
             PROVE  IInv
  OBVIOUS
<1> USE DEF Init
<1>1. TypeOK
  <2>1. upc \in [Users -> UserPoints] /\ bpc \in [Balconies -> BalconyPoints]
    BY DEF UserPoints, BalconyPoints
  <2>2. /\ first_request \in [Balconies -> Users \cup {NoRequest}]
        /\ queue_empty \in [Balconies -> BOOLEAN]
        /\ replies \in [Users -> Nat]
    OBVIOUS
  <2>3. posted \in 0 .. n_threads /\ empty \in Nat
    BY CountTypes
  <2>4. fifo \in Seq(Users) /\ queue \in Seq(Users)
    BY EmptySeq
  <2>5. reader \in BOOLEAN /\ writer_came \in BOOLEAN /\ dummy \in BOOLEAN /\ balcony_open \in BOOLEAN
    OBVIOUS
  <2>6. QED
    BY <2>1, <2>2, <2>3, <2>4, <2>5 DEF TypeOK
<1>2. Control /\ NoPhantomRequest /\ NoAbortInService
  BY NamesAssumption
  DEF Control, MutexOwner, Phases, Closing, Emptiness, Hands, Exits, Starting, ServiceLoop,
      Joined, Ending, Holding, NoPhantomRequest, NoAbortInService
<1>3. Accounting
  <2>1. Claimed = 0 /\ Passed = 0 /\ Active = 0
    BY CountPositive DEF Claimed, Passed, Active
  <2>2. QED
    BY <2>1, CountTypes, AccountingCounts, EmptySeq DEF One
<1>4. OneCopy
  <2> SUFFICES ASSUME NEW u \in Users
               PROVE  Copies(u) = 0 /\ upc[u] \notin {"sent", "left"}
    BY DEF OneCopy, One
  <2>1. {b \in Balconies : first_request[b] = u} = {}
    BY NamesAssumption
  <2>2. InHands(u) = 0
    BY <2>1, FS_EmptySet DEF InHands
  <2>3. Occurrences(fifo, u) = 0 /\ Occurrences(queue, u) = 0
    BY OccurrencesEmpty
  <2>4. QED
    BY <2>2, <2>3, CopiesSum, NamesAssumption DEF One
<1>5. QED
  BY <1>1, <1>2, <1>3, <1>4 DEF IInv

\* ... and every step of a user, of main or of a balcony keeps it.
LEMMA Invariant == Spec => []IInv
<1>1. IInv /\ [Next]_vars => IInv'
  <2> SUFFICES ASSUME IInv, [Next]_vars
               PROVE  IInv'
    OBVIOUS
  <2>1. ASSUME NEW u \in Users, UserStep(u)
        PROVE  IInv'
    BY <2>1, UserTypes, UserControl, UserAccounting, UserCopies DEF IInv
  <2>2. CASE MainStep
    BY <2>2, MainTypes, MainControl, MainAccounting, MainCopies DEF IInv
  <2>3. ASSUME NEW b \in Balconies, BalconyStep(b)
        PROVE  IInv'
    BY <2>3, BalconyTypes, BalconyControl, BalconyAccounting, BalconyCopies DEF IInv, Accounting
  <2>4. CASE UNCHANGED vars
    <3>1. /\ UNCHANGED <<fifo, fifo_mode, reader, writer_came, dummy, upc, mpc, request, ret_val>>
          /\ UNCHANGED <<posted, database, queue, full, empty, mutex, balcony_open>>
          /\ UNCHANGED <<active_offices, bpc, first_request, queue_empty, replies>>
          /\ UNCHANGED <<discarded, exit_code>>
      BY <2>4 DEF vars, fifoVars, mainVars, queueVars, balconyVars, serviceVars, outcomeVars
    <3>2. TypeOK'
      BY <3>1 DEF IInv, TypeOK
    <3>3. Control' /\ NoPhantomRequest' /\ NoAbortInService'
      BY <3>1 DEF IInv, Control, MutexOwner, Phases, Closing, Emptiness, Hands, Exits,
                  NoPhantomRequest, NoAbortInService
    <3>4. Accounting'
      BY <3>1, CountsStay, AccountingCounts, AccountingCountsPrime DEF IInv
    <3>5. OneCopy'
      BY <3>1, CopiesStay DEF IInv
    <3>6. QED
      BY <3>2, <3>3, <3>4, <3>5 DEF IInv
  <2>5. QED
    BY <2>1, <2>2, <2>3, <2>4 DEF Next
<1>2. QED
  BY <1>1, InitInvariant, PTL DEF Spec

\* The types of the state of the server; in particular the counter of active
\* offices and both semaphores never go below zero.
THEOREM TypeCorrect == Spec => []TypeOK
<1>1. IInv => TypeOK
  BY DEF IInv
<1>2. QED
  BY <1>1, Invariant, PTL

\* Every unit of the semaphore empty is a place of the queue that is free, or
\* about to be used or given back (server.c:166-196, 286-316): the queue never
\* holds more requests than there are balconies.
THEOREM QueueIsBounded == Spec => []EmptyAccounting
<1>1. IInv => EmptyAccounting
  BY DEF IInv, Accounting
<1>2. QED
  BY <1>1, Invariant, PTL

\* Every unit of the semaphore full stands for a request in the queue or for a
\* post of the shutdown, and every balcony that passed it for one of them.
THEOREM FullCountsRequests == Spec => []FullAccounting
<1>1. IInv => FullAccounting
  BY DEF IInv, Accounting
<1>2. QED
  BY <1>1, Invariant, PTL

\* However many balconies there are, none finds the queue empty, and aborts the
\* server, before a shutdown (server.c:286-301): though it unlocks the queue
\* between its look at it and its take.
THEOREM NoAbort == Spec => []NoAbortInService
<1>1. IInv => NoAbortInService
  BY DEF IInv
<1>2. QED
  BY <1>1, Invariant, PTL

\* A request that was sent is in exactly one place until its one reply: none is
\* duplicated, overwritten or forgotten on its way, however main, the balconies
\* and the users interleave.
THEOREM RequestsAreKept == Spec => []OneCopy
<1>1. IInv => OneCopy
  BY DEF IInv
<1>2. QED
  BY <1>1, Invariant, PTL

\* The end of file of the FIFO is never put in the queue as a request
\* (requests.c:158-161, server.c:152-163).
THEOREM NoPhantom == Spec => []NoPhantomRequest
<1>1. IInv => NoPhantomRequest
  BY DEF IInv
<1>2. QED
  BY <1>1, Invariant, PTL

\* The counter of active offices is the number of balconies that are busy.
THEOREM ActiveOfficesCount == Spec => []ActiveOfficesExact
<1>1. IInv => ActiveOfficesExact
  BY DEF IInv, Accounting
<1>2. QED
  BY <1>1, Invariant, PTL

\* No balcony serves a request while the accounts do not exist: main opens the
\* FIFO after it has made them, and frees them after it has joined the balconies
\* (server.c:103-141, 204-225).
THEOREM AccountsWhenServing == Spec => []AccountsThereWhenServing
<1>1. IInv => AccountsThereWhenServing
  BY DEF IInv, Control, Phases, Starting, Joined, AccountsThereWhenServing, BalconiesAt
<1>2. QED
  BY <1>1, Invariant, PTL

\* When the server ends normally, every request that was sent had its reply,
\* unless main dropped it or never read it.
THEOREM AcceptedAnswered == Spec => []AcceptedAreAnswered
<1>1. ASSUME IInv, exit_code = "RC_OK", NEW u \in Users, upc[u] \in {"sent", "left"}
      PROVE  replies[u] = 1 \/ u \in discarded \/ \E i \in DOMAIN fifo : fifo[i] = u
  <2>t. TypeOK /\ Phases /\ Emptiness /\ Hands /\ Exits /\ Copies(u) = 1
    BY <1>1 DEF IInv, Control, OneCopy, One
  <2>1. mpc = "exited" /\ \A b \in Balconies : bpc[b] = "done"
    BY <1>1, <2>t DEF Exits, Phases, Joined
  <2>2. queue = <<>>
    BY <2>1, <2>t, BalconiesAssumption DEF Emptiness
  <2>3. request = NoRequest /\ \A b \in Balconies : first_request[b] = NoRequest
    BY <2>1, <2>t DEF Hands, Holding
  <2>4. {b \in Balconies : first_request[b] = u} = {}
    BY <2>3, NamesAssumption
  <2>5. InHands(u) = 0 /\ Occurrences(queue, u) = 0
    BY <2>2, <2>4, FS_EmptySet, OccurrencesEmpty DEF InHands
  <2>6. One(request = u) = 0
    BY <2>3, NamesAssumption DEF One
  <2>7. Occurrences(fifo, u) + One(u \in discarded) + replies[u] = 1
    BY <2>5, <2>6, <2>t, CopiesSum, CopiesTypes
  <2>8. fifo \in Seq(Users)
    BY <2>t DEF TypeOK
  <2>9. (\E i \in DOMAIN fifo : fifo[i] = u) <=> Occurrences(fifo, u) > 0
    BY <2>8, OccurrencesType
  <2>10. QED
    BY <2>7, <2>9, <2>t, CopiesTypes DEF One
<1>2. IInv => AcceptedAreAnswered
  BY <1>1 DEF AcceptedAreAnswered
<1>3. QED
  BY <1>2, Invariant, PTL

=============================================================================
