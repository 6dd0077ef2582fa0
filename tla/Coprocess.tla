----------------------------- MODULE Coprocess -----------------------------
(***************************************************************************)
(* gen_hash of src/shared/crypto.c: a thread of the server creates two     *)
(* pipes, forks, and lets the child become sha256sum, which reads its      *)
(* input until no process has the write end of the first pipe open, writes *)
(* the digest in the second and exits.  Every balcony that authenticates a *)
(* request or creates an account makes such a call, and the calls share    *)
(* the descriptors of the server: a child inherits what is open in the     *)
(* server when it is forked, the ends of other calls included.             *)
(*                                                                         *)
(* A descriptor is the call that created it and the end it is.  Of what a  *)
(* child inherits only the write ends of first pipes are kept: no child    *)
(* waits for another end.  An input fits in a pipe, so write does not      *)
(* block; close fails only on a descriptor that is not open; sha256sum is  *)
(* installed.                                                              *)
(***************************************************************************)
EXTENDS Integers, FiniteSets

CONSTANT Calls  \* the calls of gen_hash

Ends == {"fd1_read", "fd1_write", "fd2_read", "fd2_write"}
NoReturn == 1

VARIABLES
    pc,      \* where each call is
    ret,     \* what it returned
    open,    \* the descriptors that the server has open
    child,   \* the child of each call
    holds,   \* the calls whose fd1[WRITE] that child has open
    input,   \* the calls whose input was written
    output   \* the calls whose digest is in the second pipe

vars == <<pc, ret, open, child, holds, input, output>>

Init ==
    /\ pc = [c \in Calls |-> "pipe1"]
    /\ ret = [c \in Calls |-> NoReturn]
    /\ open = {}
    /\ child = [c \in Calls |-> "none"]
    /\ holds = [c \in Calls |-> {}]
    /\ input = {}
    /\ output = {}

Go(c, from, to) == pc[c] = from /\ pc' = [pc EXCEPT ![c] = to]

\* What is open stays open: an error path closes nothing.
Return(c, from, code) ==
    /\ Go(c, from, "returned")
    /\ ret' = [ret EXCEPT ![c] = code]
    /\ UNCHANGED <<open, child, holds, input, output>>

\* Mutant: perror without return.
PipeFails_goesOn(c, from) ==
    /\ Go(c, from, IF from = "pipe1" THEN "pipe2" ELSE "fork")
    /\ ret' = [ret EXCEPT ![c] = -1]
    /\ UNCHANGED <<open, child, holds, input, output>>

PipeFails(c, from) == Return(c, from, -1)

Pipe1(c) ==
    /\ Go(c, "pipe1", "pipe2")
    /\ open' = open \cup {<<c, "fd1_read">>, <<c, "fd1_write">>}
    /\ UNCHANGED <<ret, child, holds, input, output>>

Pipe2(c) ==
    /\ Go(c, "pipe2", "fork")
    /\ open' = open \cup {<<c, "fd2_read">>, <<c, "fd2_write">>}
    /\ UNCHANGED <<ret, child, holds, input, output>>

Fork(c) ==
    /\ Go(c, "fork", "close_unused")
    /\ child' = [child EXCEPT ![c] = "forked"]
    /\ holds' = [holds EXCEPT ![c] = {d \in Calls : <<d, "fd1_write">> \in open}]
    /\ UNCHANGED <<ret, open, input, output>>

ForkFails(c) == Return(c, "fork", -3)

\* Mutant: leaves fd2[WRITE] open.
CloseUnused_forgets(c) ==
    /\ Go(c, "close_unused", "write")
    /\ open' = open \ {<<c, "fd1_read">>}
    /\ UNCHANGED <<ret, child, holds, input, output>>

CloseUnused(c) ==
    /\ Go(c, "close_unused", "write")
    /\ open' = open \ {<<c, "fd1_read">>, <<c, "fd2_write">>}
    /\ UNCHANGED <<ret, child, holds, input, output>>

WriteInput(c) ==
    /\ Go(c, "write", "close_input")
    /\ input' = input \cup {c}
    /\ UNCHANGED <<ret, open, child, holds, output>>

CloseInput(c) ==
    /\ Go(c, "close_input", "read")
    /\ open' = open \ {<<c, "fd1_write">>}
    /\ UNCHANGED <<ret, child, holds, input, output>>

\* read blocks until the digest is there; then close of fd2[READ].
ReadHash(c) ==
    /\ Go(c, "read", "wait")
    /\ c \in output
    /\ open' = open \ {<<c, "fd2_read">>}
    /\ UNCHANGED <<ret, child, holds, input, output>>

\* waitpid and return 0.
WaitChild(c) ==
    /\ Go(c, "wait", "returned")
    /\ child[c] = "zombie"
    /\ child' = [child EXCEPT ![c] = "reaped"]
    /\ ret' = [ret EXCEPT ![c] = 0]
    /\ UNCHANGED <<open, holds, input, output>>

-----------------------------------------------------------------------------
(* The child.                                                              *)

\* Mutant: leaves fd1[WRITE] open in the child.
ChildExec_forgets(c) ==
    /\ child[c] = "forked"
    /\ child' = [child EXCEPT ![c] = "sha256sum"]
    /\ UNCHANGED <<pc, ret, open, holds, input, output>>

\* Close fd1[WRITE] and fd2[READ] of this call only, dup2, execlp.
ChildExec(c) ==
    /\ child[c] = "forked"
    /\ child' = [child EXCEPT ![c] = "sha256sum"]
    /\ holds' = [holds EXCEPT ![c] = @ \ {c}]
    /\ UNCHANGED <<pc, ret, open, input, output>>

\* The children that keep call c waiting.
Holders(c) == {d \in Calls : c \in holds[d]}

\* sha256sum: end of file on the input, the digest, ...
ChildHash(c) ==
    /\ child[c] = "sha256sum"
    /\ <<c, "fd1_write">> \notin open
    /\ Holders(c) = {}
    /\ child' = [child EXCEPT ![c] = "hashed"]
    /\ output' = output \cup {c}
    /\ UNCHANGED <<pc, ret, open, holds, input>>

\* ... and exit, which closes all that the child has open.
ChildExit(c) ==
    /\ child[c] = "hashed"
    /\ child' = [child EXCEPT ![c] = "zombie"]
    /\ holds' = [holds EXCEPT ![c] = {}]
    /\ UNCHANGED <<pc, ret, open, input, output>>

-----------------------------------------------------------------------------

ParentStep(c) ==
    \/ Pipe1(c)
    \/ PipeFails(c, "pipe1")
    \/ Pipe2(c)
    \/ PipeFails(c, "pipe2")
    \/ Fork(c)
    \/ ForkFails(c)
    \/ CloseUnused(c)
    \/ WriteInput(c)
    \/ CloseInput(c)
    \/ ReadHash(c)
    \/ WaitChild(c)

ChildStep(c) ==
    \/ ChildExec(c)
    \/ ChildHash(c)
    \/ ChildExit(c)

Next == \E c \in Calls : ParentStep(c) \/ ChildStep(c)

Spec == Init /\ [][Next]_vars

\* The kernel runs every thread of the server and every child.
Fairness == \A c \in Calls : WF_vars(ParentStep(c)) /\ WF_vars(ChildStep(c))

FairSpec == Spec /\ Fairness

-----------------------------------------------------------------------------
(* Properties.                                                             *)

\* A call has a return code exactly when it has returned.
TypeOK ==
    /\ pc \in [Calls -> {"pipe1", "pipe2", "fork", "close_unused", "write",
                         "close_input", "read", "wait", "returned"}]
    /\ ret \in [Calls -> {0, -1, -3, NoReturn}]
    /\ open \subseteq Calls \X Ends
    /\ child \in [Calls -> {"none", "forked", "sha256sum", "hashed", "zombie", "reaped"}]
    /\ holds \in [Calls -> SUBSET Calls]
    /\ input \subseteq Calls
    /\ output \subseteq input
    /\ \A c \in Calls : (pc[c] = "returned") = (ret[c] # NoReturn)

\* A call that returns 0 leaves no descriptor open in the server and no zombie,
\* so hashing does not use up what the server may open: only a call that failed
\* does (crypto.c:53-63 return with one or both pipes open), and such a call
\* leaves no child.
CallLeavesNothing ==
    \A c \in Calls : pc[c] = "returned" =>
        IF ret[c] = 0
        THEN child[c] = "reaped" /\ c \in output /\ \A e \in Ends : <<c, e>> \notin open
        ELSE child[c] = "none"

\* The calls of K wait for each other: the input of each is held open by the
\* child of another, forked while that input was open.
Entangled(K) == \A c \in K : \E d \in K : d # c /\ c \in holds[d]

\* A call of gen_hash returns, unless its child is one of several that hold the
\* input of each other open: there is no other way for it to get stuck, and a
\* child that merely inherits the input of another call delays that call only
\* until it exits.
HashEndsUnlessEntangled ==
    \A c \in Calls :
        pc[c] # "pipe1"
            ~> (pc[c] = "returned" \/ \E K \in SUBSET Calls : c \in K /\ Entangled(K))

-----------------------------------------------------------------------------
(* A statement of the documents that the code does not keep.               *)

\* README.md:18, "A high level of concurrency is assured with synchronization
\* methods": two balconies may hash at the same time.  (Both children close the
\* "unnecessary descriptors", crypto.c:103, of their own call only.)
HashEnds == \A c \in Calls : pc[c] # "pipe1" ~> pc[c] = "returned"

=============================================================================
