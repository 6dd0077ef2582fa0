------------------------- MODULE CoprocessProofs -------------------------
(***************************************************************************)
(* What a call of gen_hash leaves behind, for every number of calls.       *)
(***************************************************************************)
EXTENDS Coprocess, TLAPS

\* The call succeeded.
Succeeded(c) == pc[c] = "returned" /\ ret[c] = 0

\* How far the descriptors of call c are closed, and its child is, at each
\* point of the parent: the child has what it needs only after the input was
\* written, for the parent itself holds the write end open until then.
Progress(c) ==
    /\ pc[c] \in {"pipe2", "fork", "close_unused", "write", "close_input"} =>
           <<c, "fd1_write">> \in open
    /\ pc[c] \in {"write", "close_input", "read", "wait"} \/ Succeeded(c) =>
           <<c, "fd1_read">> \notin open /\ <<c, "fd2_write">> \notin open
    /\ pc[c] \in {"close_input", "read", "wait"} \/ Succeeded(c) => c \in input
    /\ pc[c] \in {"read", "wait"} \/ Succeeded(c) => <<c, "fd1_write">> \notin open
    /\ pc[c] = "wait" \/ Succeeded(c) => <<c, "fd2_read">> \notin open /\ c \in output
    /\ Succeeded(c) => child[c] = "reaped"
    /\ pc[c] \in {"pipe1", "pipe2", "fork"} \/ (pc[c] = "returned" /\ ret[c] # 0) =>
           child[c] = "none"

IInv == TypeOK /\ \A c \in Calls : Progress(c)

\* Only call c itself changes what Progress says of it.
LEMMA OthersKeep ==
    ASSUME IInv, NEW c \in Calls, NEW d \in Calls, c # d,
           pc'[d] = pc[d], ret'[d] = ret[d], child'[d] = child[d],
           \A e \in Ends : (<<d, e>> \in open') = (<<d, e>> \in open),
           (d \in input') = (d \in input), (d \in output') = (d \in output)
    PROVE  Progress(d)'
BY DEF IInv, Progress, Succeeded, Ends

\* A step of the thread that makes call c.
LEMMA ParentKeeps ==
    ASSUME IInv, NEW c \in Calls, ParentStep(c)
    PROVE  IInv'
<1> USE DEF IInv, TypeOK, Ends, NoReturn
<1>1. TypeOK'
  <2>1. CASE Pipe1(c) \/ Pipe2(c)
    BY <2>1 DEF Pipe1, Pipe2, Go
  <2>2. CASE PipeFails(c, "pipe1") \/ PipeFails(c, "pipe2") \/ ForkFails(c)
    BY <2>2 DEF PipeFails, ForkFails, Return, Go
  <2>3. CASE Fork(c)
    BY <2>3 DEF Fork, Go
  <2>4. CASE CloseUnused(c) \/ WriteInput(c) \/ CloseInput(c) \/ ReadHash(c)
    BY <2>4 DEF CloseUnused, WriteInput, CloseInput, ReadHash, Go
  <2>5. CASE WaitChild(c)
    BY <2>5 DEF WaitChild, Go
  <2>6. QED
    BY <2>1, <2>2, <2>3, <2>4, <2>5 DEF ParentStep
<1>2. Progress(c)'
  <2> USE DEF Progress, Succeeded
  <2>1. CASE Pipe1(c) \/ Pipe2(c)
    BY <2>1 DEF Pipe1, Pipe2, Go
  <2>2. CASE PipeFails(c, "pipe1") \/ PipeFails(c, "pipe2") \/ ForkFails(c)
    BY <2>2 DEF PipeFails, ForkFails, Return, Go
  <2>3. CASE Fork(c)
    BY <2>3 DEF Fork, Go
  <2>4. CASE CloseUnused(c) \/ WriteInput(c) \/ CloseInput(c) \/ ReadHash(c)
    BY <2>4 DEF CloseUnused, WriteInput, CloseInput, ReadHash, Go
  <2>5. CASE WaitChild(c)
    BY <2>5 DEF WaitChild, Go
  <2>6. QED
    BY <2>1, <2>2, <2>3, <2>4, <2>5 DEF ParentStep
<1>3. ASSUME NEW d \in Calls, d # c
      PROVE  Progress(d)'
  <2>1. /\ pc'[d] = pc[d] /\ ret'[d] = ret[d] /\ child'[d] = child[d]
        /\ (d \in input') = (d \in input) /\ output' = output
        /\ \A e \in Ends : (<<d, e>> \in open') = (<<d, e>> \in open)
    BY <1>3 DEF ParentStep, Pipe1, PipeFails, Pipe2, Fork, ForkFails, CloseUnused,
                WriteInput, CloseInput, ReadHash, WaitChild, Return, Go
  <2>2. QED
    BY <2>1, <1>3, OthersKeep
<1>4. QED
  BY <1>1, <1>2, <1>3

\* A step of the child.
LEMMA ChildKeeps ==
    ASSUME IInv, NEW c \in Calls, ChildStep(c)
    PROVE  IInv'
<1> USE DEF IInv, TypeOK, Ends, NoReturn
<1>1. CASE ChildExec(c)
  BY <1>1 DEF ChildExec, Progress, Succeeded
<1>2. CASE ChildHash(c)
  <2>1. c \in input
    BY <1>2 DEF ChildHash, Progress, Succeeded
  <2>2. QED
    BY <1>2, <2>1 DEF ChildHash, Progress, Succeeded
<1>3. CASE ChildExit(c)
  BY <1>3 DEF ChildExit, Progress, Succeeded
<1>4. QED
  BY <1>1, <1>2, <1>3 DEF ChildStep

\* Every step of every call keeps the invariant.
LEMMA Invariant == Spec => []IInv
<1>1. Init => IInv
  BY DEF Init, IInv, TypeOK, Progress, Succeeded, Ends, NoReturn
<1>2. IInv /\ [Next]_vars => IInv'
  <2> SUFFICES ASSUME IInv, [Next]_vars
               PROVE  IInv'
    OBVIOUS
  <2>1. CASE Next
    BY <2>1, ParentKeeps, ChildKeeps DEF Next
  <2>2. CASE UNCHANGED vars
    BY <2>2 DEF vars, IInv, TypeOK, Progress, Succeeded
  <2>3. QED
    BY <2>1, <2>2
<1>3. QED
  BY <1>1, <1>2, PTL DEF Spec

\* The types of the state of gen_hash, and a return code exactly when a call
\* has returned.
THEOREM TypeCorrect == Spec => []TypeOK
<1>1. IInv => TypeOK
  BY DEF IInv
<1>2. QED
  BY <1>1, Invariant, PTL

\* A call that succeeds leaves nothing behind in the server, neither a
\* descriptor nor a zombie, however many calls run at the same time and in
\* whatever order their children were forked; a call that fails leaves no child
\* (crypto.c:53-143).
THEOREM SuccessLeavesNothing == Spec => []CallLeavesNothing
<1>1. IInv => CallLeavesNothing
  BY DEF IInv, TypeOK, Progress, Succeeded, CallLeavesNothing, Ends
<1>2. QED
  BY <1>1, Invariant, PTL

=============================================================================
