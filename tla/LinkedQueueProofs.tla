------------------------- MODULE LinkedQueueProofs -------------------------
(***************************************************************************)
(* The linked list of the request queue, with any number of balconies,     *)
(* requests and shutdowns, and any memory with a node for each of them.    *)
(***************************************************************************)
EXTENDS LinkedQueue, FiniteSetTheorems, FunctionTheorems, SequenceTheorems,
        WellFoundedInduction, TLAPS

-----------------------------------------------------------------------------
(* The inductive invariant.                                                *)

MainPoints == Unlinked \cup {"read", "unlock", "post_full", "post_final", "delete",
                             "del_sync", "done"}
BalconyPoints == Holding \cup {"wait_full", "lock_check", "check", "decide",
                               "lock_take", "take", "done"}

\* Where the threads may be, and who owns the mutex there.
Points ==
    /\ pc[Main] \in MainPoints
    /\ \A b \in Balconies : pc[b] \in BalconyPoints
Inside(t) == IF t = Main THEN pc[t] \in {"push", "walk", "unlock"}
             ELSE pc[t] \in {"check", "take", "pop"}
MutexOwner == \A t \in Balconies \cup {Main} : mutex = t <=> Inside(t)

\* The phases of the server: main puts requests, main closes the service, main
\* deletes the queue when no balcony is left.
InService == pc[Main] \notin {"post_final", "delete", "del_sync", "done"}
Deleting == pc[Main] \in {"delete", "del_sync", "done"}
SawEmpty(b) == pc[b] = "done" \/ (pc[b] = "decide" /\ queue_empty[b])
Phases ==
    /\ InService => posted = 0
    /\ Deleting => \A b \in Balconies : pc[b] = "done"
    /\ state = "deleted" => pc[Main] \in {"del_sync", "done"}
    /\ \A b \in Balconies : SawEmpty(b) => ~InService /\ front = NULL

\* The variables of main.
MainLocals ==
    /\ pc[Main] \in Unlinked \cup {"unlock", "post_full"} => request \in Requests
    /\ request \in Requests => request = last_read
    /\ pc[Main] = "read" => (request = NoRequest => last_read = 0)

\* The list: a chain of different cells that ends in NULL.
Chain(s) ==
    /\ front = IF s = <<>> THEN NULL ELSE s[1]
    /\ \A i \in 1 .. Len(s) :
        /\ node[s[i]] # Free
        /\ node[s[i]].next = IF i = Len(s) THEN NULL ELSE s[i + 1]
    /\ \A i, j \in 1 .. Len(s) : s[i] = s[j] => i = j
ListIsChain == List \in Seq(Cells) /\ Chain(List)

\* The node that main is linking.
Linking ==
    pc[Main] = "walk" =>
        /\ iter \in ToSet(List)
        /\ new_node \in Cells \ ToSet(List)
        /\ node[new_node] = new_queue_node(request)
NodesInUse ==
    {c \in Cells : node[c] # Free} =
        ToSet(List) \cup (IF pc[Main] = "walk" THEN {new_node} ELSE {})

\* The requests that wait are the last that were put, in their order; those that
\* balconies hold were taken before them.
Waiting == \A i \in 1 .. Len(List) : node[List[i]].val = Put - Len(List) + i
Held(b) == pc[b] \in Holding
Hands ==
    /\ \A b \in Balconies : first_request[b] # NoRequest <=> Held(b)
    /\ \A b \in Balconies :
        Held(b) /\ pc[b] # "pop" => first_request[b] <= Put - Len(List)
    /\ \A b \in Balconies :
        pc[b] = "pop" => front \in Cells /\ first_request[b] = node[front].val
    /\ \A b, c \in Balconies :
        b # c /\ Held(b) /\ Held(c) => first_request[b] # first_request[c]
Allocation ==
    allocated =
        {node[c].val : c \in ToSet(List)}
        \cup (IF pc[Main] \in Unlinked THEN {request} ELSE {})
        \cup {first_request[b] : b \in {a \in Balconies : Held(a)}}

\* The semaphores.
InLine == {b \in Balconies : pc[b] \in {"lock_check", "check", "decide", "lock_take",
                                       "take", "pop"}}
Leaving == {b \in Balconies : pc[b] = "post_empty"}
FullCounts ==
    IF InService
    THEN Len(List) = full + Cardinality(InLine)
                     + (IF pc[Main] \in {"unlock", "post_full"} THEN 1 ELSE 0)
    ELSE full <= n_threads + posted
EmptyCounts ==
    ~Deleting =>
        empty + Len(List) + Cardinality(Leaving)
        + (IF pc[Main] \in {"lock", "push", "walk"} THEN 1 ELSE 0) = n_threads

IInv ==
    /\ TypeOK
    /\ Points
    /\ MutexOwner
    /\ Phases
    /\ MainLocals
    /\ ListIsChain
    /\ Linking
    /\ NodesInUse
    /\ Waiting
    /\ Hands
    /\ Allocation
    /\ FullCounts
    /\ EmptyCounts

-----------------------------------------------------------------------------
(* The list in memory.                                                     *)

\* A set of numbers below a bound has a least element.
LEMMA LeastOf ==
    ASSUME NEW N \in Nat, NEW T \in SUBSET (0 .. N), T # {}
    PROVE  \E m \in T : \A k \in T : m <= k
<1> DEFINE S == 0 .. N
           F == {0 .. k : k \in T}
           R == StrictSubsetOrdering(S)
<1>1. IsFiniteSet(S)
  BY FS_Interval
<1>2. F \subseteq FiniteSubsetsOf(S) /\ F # {}
  <2>1. \A k \in T : 0 .. k \in SUBSET S
    OBVIOUS
  <2>2. F \subseteq SUBSET S /\ F # {}
    BY <2>1
  <2> HIDE DEF S, F
  <2>3. FiniteSubsetsOf(S) = SUBSET S
    BY <1>1, FS_FiniteSubsetsOfFinite
  <2>4. QED
    BY <2>2, <2>3
<1>3. PICK U \in F : \A V \in F : <<V, U>> \notin R
  <2>1. IsWellFoundedOn(R, FiniteSubsetsOf(S))
    BY FS_StrictSubsetOrderingWellFounded
  <2> HIDE DEF F, R
  <2>2. QED
    BY <1>2, <2>1, WFMin
<1>4. PICK m \in T : U = 0 .. m
  BY <1>3
<1>5. ASSUME NEW k \in T, k < m PROVE FALSE
  <2>1. 0 .. k \in SUBSET S /\ U \in SUBSET S /\ 0 .. k \in F
    BY <1>4
  <2>2. 0 .. k \in SUBSET U /\ m \in U /\ m \notin 0 .. k
    BY <1>4, <1>5
  <2>3. <<0 .. k, U>> \in R
    BY <2>1, <2>2 DEF StrictSubsetOrdering
  <2>4. QED
    BY <1>3, <2>1, <2>3
<1>6. \A k \in T : m <= k
  BY <1>5
<1>7. QED
  BY <1>6

\* What the assumptions say of the constants, in the form that the steps need.
LEMMA CellsAreMany ==
    /\ Cardinality(Cells) \in Nat /\ IsFiniteSet(Cells) /\ NULL \notin Cells
    /\ n_threads \in Nat \ {0} /\ n_threads < Cardinality(Cells)
    /\ IsFiniteSet(Balconies) /\ Main \notin Balconies
    /\ Nobody \notin Balconies /\ Nobody # Main
    /\ Arrivals \in Nat /\ NoRequest \notin Requests
<1>1. n_threads \in Nat /\ Cardinality(Cells) \in Nat
  BY BalconiesAssumption, CellsAssumption, FS_CardinalityType DEF n_threads
<1>2. n_threads # 0
  BY BalconiesAssumption, FS_EmptySet DEF n_threads
<1>3. QED
  BY <1>1, <1>2, BalconiesAssumption, CellsAssumption, ArrivalsAssumption
     DEF Requests, NoRequest

\* How many numbers there are from 1 to n.
LEMMA CountUpTo ==
    ASSUME NEW n \in Nat
    PROVE  Cardinality(1 .. n) = n
<1>1. Cardinality(1 .. n) = IF 1 > n THEN 0 ELSE n - 1 + 1
  BY FS_Interval
<1>2. QED
  BY <1>1

\* The walk of the definition of link follows a chain, and goes on with NULL.
LEMMA ListIs ==
    ASSUME NEW s \in Seq(Cells), Chain(s)
    PROVE  List = s
<1> DEFINE N == Cardinality(Cells)
           Rec(f) == f = [i \in 0 .. N |->
                             IF i = 0 THEN front
                             ELSE IF f[i-1] \in Cells THEN node[f[i-1]].next ELSE NULL]
           g == [i \in 0 .. N |-> IF i < Len(s) THEN s[i + 1] ELSE NULL]
<1>1. N \in Nat /\ Len(s) \in Nat /\ \A i \in 1 .. Len(s) : s[i] \in Cells
  BY CellsAreMany, LenProperties
<1>2. link = CHOOSE f : Rec(f)
  BY DEF link
<1>3. Rec(g)
  <2>1. ASSUME NEW i \in 0 .. N
        PROVE  g[i] = IF i = 0 THEN front
                      ELSE IF g[i-1] \in Cells THEN node[g[i-1]].next ELSE NULL
    <3>1. CASE i = 0
      <4>1. s = <<>> <=> Len(s) = 0
        BY EmptySeq
      <4>2. QED
        BY <1>1, <3>1, <4>1 DEF Chain
    <3>2. CASE i # 0 /\ i - 1 < Len(s)
      <4>1. i - 1 \in 0 .. N /\ i \in 1 .. Len(s)
        BY <1>1, <3>2
      <4>2. g[i-1] = s[i] /\ s[i] \in Cells
        BY <1>1, <3>2, <4>1
      <4>3. node[s[i]].next = IF i = Len(s) THEN NULL ELSE s[i + 1]
        BY <4>1 DEF Chain
      <4>4. QED
        BY <1>1, <3>2, <4>1, <4>2, <4>3
    <3>3. CASE i # 0 /\ ~(i - 1 < Len(s))
      <4>1. i - 1 \in 0 .. N /\ g[i-1] = NULL /\ g[i] = NULL
        BY <1>1, <3>3
      <4>2. QED
        BY <3>3, <4>1, CellsAreMany
    <3>4. QED
      BY <3>1, <3>2, <3>3
  <2>2. QED
    BY <2>1
<1>4. Rec(link)
  <2> HIDE DEF Rec, g
  <2>1. QED
    BY <1>2, <1>3
<1>5. \A i \in 0 .. N : link[i] = g[i]
  <2> DEFINE T == {i \in 0 .. N : link[i] # g[i]}
  <2>1. SUFFICES ASSUME T # {} PROVE FALSE
    OBVIOUS
  <2>2. PICK m \in T : \A k \in T : m <= k
    <3> HIDE DEF g
    <3>1. T \in SUBSET (0 .. N)
      OBVIOUS
    <3> HIDE DEF T
    <3>2. QED
      BY <1>1, <2>1, <3>1, LeastOf
  <2>3. m \in 0 .. N
    OBVIOUS
  <2>4. link[m] = IF m = 0 THEN front
                  ELSE IF link[m-1] \in Cells THEN node[link[m-1]].next ELSE NULL
    BY <1>4, <2>3
  <2>5. g[m] = IF m = 0 THEN front
               ELSE IF g[m-1] \in Cells THEN node[g[m-1]].next ELSE NULL
    BY <1>3, <2>3
  <2>6. CASE m = 0
    BY <2>4, <2>5, <2>6
  <2>7. CASE m # 0
    <3>1. m - 1 \in 0 .. N /\ m - 1 \notin T
      BY <1>1, <2>2, <2>3, <2>7
    <3>2. link[m-1] = g[m-1]
      BY <3>1
    <3>3. link[m] = g[m]
      BY <2>4, <2>5, <2>7, <3>2
    <3>4. QED
      BY <3>3
  <2>8. QED
    BY <2>6, <2>7
<1>6. Len(s) <= N
  <2>1. s \in Injection(1 .. Len(s), Cells)
    <3>1. s \in [1 .. Len(s) -> Cells]
      BY LenProperties
    <3>2. QED
      BY <3>1, Fun_IsInj DEF Chain
  <2>2. Cardinality(1 .. Len(s)) <= N
    BY <2>1, CellsAssumption, FS_Injection
  <2>3. Cardinality(1 .. Len(s)) = Len(s)
    BY <1>1, CountUpTo
  <2>4. QED
    BY <2>2, <2>3
<1>7. {i \in 1 .. N : link[i-1] \in Cells} = 1 .. Len(s)
  <2>1. ASSUME NEW i \in 1 .. N PROVE link[i-1] \in Cells <=> i \in 1 .. Len(s)
    <3>1. i - 1 \in 0 .. N
      BY <1>1
    <3>2. link[i-1] = IF i - 1 < Len(s) THEN s[i] ELSE NULL
      BY <1>1, <1>5, <3>1
    <3>3. QED
      BY <1>1, <3>2, CellsAreMany
  <2>2. QED
    BY <1>1, <1>6, <2>1
<1>8. Length = Len(s)
  BY <1>1, <1>7, CountUpTo DEF Length
<1>9. \A i \in 1 .. Len(s) : link[i-1] = s[i]
  BY <1>1, <1>5, <1>6
<1>10. s = [i \in 1 .. Len(s) |-> s[i]]
  BY LenProperties
<1>11. QED
  BY <1>8, <1>9, <1>10 DEF List

\* What the chain says of the list.
ListKnown ==
    /\ Len(List) \in Nat /\ DOMAIN List = 1 .. Len(List) /\ List \in Seq(Cells)
    /\ \A i \in 1 .. Len(List) : List[i] \in Cells
    /\ \A i \in 1 .. Len(List) : node[List[i]] # Free
    /\ \A i \in 1 .. Len(List) :
        node[List[i]].next = IF i = Len(List) THEN NULL ELSE List[i + 1]
    /\ \A i, j \in 1 .. Len(List) : List[i] = List[j] => i = j
    /\ \A c : c \in ToSet(List) <=> \E i \in 1 .. Len(List) : c = List[i]
    /\ front = IF Len(List) = 0 THEN NULL ELSE List[1]
    /\ Len(List) = 0 <=> List = <<>>
    /\ front = NULL <=> Len(List) = 0

\* A state whose list is a chain has what ListKnown says of it.
LEMMA ListFacts == ListIsChain => ListKnown
<1> SUFFICES ASSUME ListIsChain PROVE ListKnown
  OBVIOUS
<1>1. /\ Len(List) \in Nat /\ DOMAIN List = 1 .. Len(List) /\ List \in Seq(Cells)
      /\ \A i \in 1 .. Len(List) : List[i] \in Cells
  BY LenProperties DEF ListIsChain
<1>2. Len(List) = 0 <=> List = <<>>
  BY <1>1, EmptySeq
<1>3. \A c : c \in ToSet(List) <=> \E i \in 1 .. Len(List) : c = List[i]
  BY <1>1 DEF ToSet
<1>4. /\ \A i \in 1 .. Len(List) : node[List[i]] # Free
      /\ \A i \in 1 .. Len(List) :
            node[List[i]].next = IF i = Len(List) THEN NULL ELSE List[i + 1]
      /\ \A i, j \in 1 .. Len(List) : List[i] = List[j] => i = j
      /\ front = IF List = <<>> THEN NULL ELSE List[1]
  BY DEF ListIsChain, Chain
<1>5. front = NULL <=> Len(List) = 0
  <2>1. Len(List) # 0 => 1 \in 1 .. Len(List)
    BY <1>1
  <2>2. Len(List) # 0 => List[1] # NULL
    BY <1>1, <2>1, CellsAreMany
  <2>3. QED
    BY <1>2, <1>4, <2>2
<1>6. QED
  BY <1>1, <1>2, <1>3, <1>4, <1>5 DEF ListKnown

\* The same in the next state.
LEMMA ListFactsNext == ListIsChain' => ListKnown'
BY ListFacts, PTL

\* Every chain is the list.
ListUnique == \A s \in Seq(Cells) : Chain(s) => List = s

\* The cells determine the list in the next state as well.
LEMMA ListUniqueNext == ListUnique'
<1>1. ListUnique
  BY ListIs DEF ListUnique
<1>2. QED
  BY <1>1, PTL

\* A new node is the list when there was none.
LEMMA ListOfFirst ==
    ASSUME TypeOK, NEW c \in Cells, NEW val,
           front' = c, node' = [node EXCEPT ![c] = new_queue_node(val)], val \in Requests
    PROVE  ListIsChain' /\ List' = <<c>>
<1>1. /\ <<c>> \in Seq(Cells) /\ Len(<<c>>) = 1 /\ <<c>>[1] = c /\ <<c>> # <<>>
  OBVIOUS
<1>2. node'[c] # Free /\ node'[c].next = NULL
  BY CellsAreMany DEF TypeOK, new_queue_node, Free
<1>3. Chain(<<c>>)'
  BY <1>1, <1>2 DEF Chain
<1>4. List' = <<c>>
  BY <1>1, <1>3, ListUniqueNext DEF ListUnique
<1>5. QED
  BY <1>1, <1>3, <1>4 DEF ListIsChain

\* The last node of the list is linked to a new one.
LEMMA ListOfLink ==
    ASSUME TypeOK, ListIsChain, NEW i \in ToSet(List), node[i].next = NULL,
           NEW c \in Cells \ ToSet(List), node[c].next = NULL, node[c] # Free,
           front' = front, node' = [node EXCEPT ![i].next = c]
    PROVE  ListIsChain' /\ List' = Append(List, c)
<1> DEFINE n == Len(List)
<1>a. PICK t : t = Append(List, c)
  OBVIOUS
<1>1. ListKnown
  BY ListFacts
<1>2. n \in Nat /\ List \in Seq(Cells) /\ \A k \in 1 .. n : List[k] \in Cells
  BY <1>1 DEF ListKnown
<1>3. i = List[n] /\ n # 0 /\ i \in Cells
  <2>1. PICK k \in 1 .. n : i = List[k]
    BY <1>1 DEF ListKnown
  <2>2. k = n
    BY <1>1, <2>1, CellsAreMany DEF ListKnown
  <2>3. QED
    BY <1>2, <2>1, <2>2
<1>4. /\ t \in Seq(Cells) /\ Len(t) = n + 1 /\ t[n + 1] = c
      /\ \A k \in 1 .. n : t[k] = List[k]
  BY <1>a, <1>2, AppendProperties
<1>5. /\ \A x \in Cells \ {i} : node'[x] = node[x]
      /\ node'[i] = [node[i] EXCEPT !.next = c]
  <2>1. DOMAIN node = Cells
    BY DEF TypeOK
  <2>2. QED
    BY <1>3, <2>1
<1>6. /\ node'[i].next = c /\ node'[i] # Free
  <2>1. node[i] \in [val : Requests, next : Pointers]
    BY <1>1, <1>2, <1>3 DEF TypeOK, ListKnown
  <2>2. QED
    BY <1>5, <2>1, CellsAreMany DEF Free
<1>7. c # i /\ \A k \in 1 .. n : List[k] # c
  BY <1>1 DEF ListKnown
<1> HIDE DEF n
<1>8. \A k \in 1 .. n + 1 : node'[t[k]] # Free /\
         node'[t[k]].next = IF k = n + 1 THEN NULL ELSE t[k + 1]
  <2>1. ASSUME NEW k \in 1 .. n + 1
        PROVE  node'[t[k]] # Free /\
               node'[t[k]].next = IF k = n + 1 THEN NULL ELSE t[k + 1]
    <3>1. CASE k = n + 1
      BY <1>4, <1>5, <1>7, <3>1
    <3>2. CASE k = n
      BY <1>2, <1>3, <1>4, <1>6, <3>2
    <3>3. CASE k \in 1 .. n - 1
      <4>1. k \in 1 .. n /\ k + 1 \in 1 .. n /\ k # n /\ k # n + 1 /\ n \in 1 .. n
        BY <1>2, <3>3
      <4>2. List[k] # i
        BY <1>1, <1>3, <4>1 DEF ListKnown, n
      <4>3. t[k] = List[k] /\ t[k + 1] = List[k + 1] /\ node'[List[k]] = node[List[k]]
        BY <1>2, <1>4, <1>5, <4>1, <4>2
      <4>4. node[List[k]] # Free /\ node[List[k]].next = List[k + 1]
        BY <1>1, <4>1 DEF ListKnown, n
      <4>5. QED
        BY <4>1, <4>3, <4>4
    <3>4. QED
      BY <1>2, <3>1, <3>2, <3>3
  <2>2. QED
    BY <2>1
<1>9. \A k, j \in 1 .. n + 1 : t[k] = t[j] => k = j
  <2>1. \A k, j \in 1 .. n : List[k] = List[j] => k = j
    BY <1>1 DEF ListKnown, n
  <2>2. QED
    BY <1>2, <1>4, <1>7, <2>1
<1>10. t # <<>> /\ front' = t[1]
  <2>1. front = List[1] /\ 1 \in 1 .. n
    BY <1>1, <1>2, <1>3 DEF ListKnown, n
  <2>2. t[1] = List[1] /\ Len(t) # 0
    BY <1>2, <1>4, <2>1
  <2>3. t # <<>>
    BY <2>2
  <2>4. QED
    BY <2>1, <2>2, <2>3
<1>11. Chain(t)'
  BY <1>4, <1>8, <1>9, <1>10 DEF Chain
<1>12. List' = t
  BY <1>4, <1>11, ListUniqueNext DEF ListUnique
<1>13. QED
  BY <1>a, <1>4, <1>11, <1>12 DEF ListIsChain

\* The first node of the list is freed.
LEMMA ListOfPop ==
    ASSUME TypeOK, ListIsChain, front # NULL,
           front' = node[front].next, node' = [node EXCEPT ![front] = Free]
    PROVE  ListIsChain' /\ List' = Tail(List)
<1> DEFINE n == Len(List)
<1>a. PICK t : t = Tail(List)
  OBVIOUS
<1>1. ListKnown
  BY ListFacts
<1>2. n \in Nat /\ n # 0 /\ List \in Seq(Cells) /\ List # <<>> /\ front = List[1]
      /\ \A k \in 1 .. n : List[k] \in Cells
  BY <1>1 DEF ListKnown
<1>3. /\ t \in Seq(Cells) /\ Len(t) = n - 1
      /\ \A k \in 1 .. n - 1 : t[k] = List[k + 1]
  BY <1>a, <1>2, HeadTailProperties
<1>4. \A x \in Cells \ {front} : node'[x] = node[x]
  BY DEF TypeOK
<1>5. /\ \A k, j \in 1 .. n : List[k] = List[j] => k = j
      /\ \A k \in 1 .. n : node[List[k]] # Free
      /\ \A k \in 1 .. n : node[List[k]].next = IF k = n THEN NULL ELSE List[k + 1]
  BY <1>1 DEF ListKnown
<1> HIDE DEF n
<1>6. \A k \in 1 .. n - 1 : node'[t[k]] # Free /\
         node'[t[k]].next = IF k = n - 1 THEN NULL ELSE t[k + 1]
  <2>1. ASSUME NEW k \in 1 .. n - 1
        PROVE  node'[t[k]] # Free /\
               node'[t[k]].next = IF k = n - 1 THEN NULL ELSE t[k + 1]
    <3>1. k + 1 \in 1 .. n /\ 1 \in 1 .. n /\ k + 1 # 1
      BY <1>2
    <3>2. t[k] = List[k + 1] /\ List[k + 1] # front /\ List[k + 1] \in Cells
      BY <1>2, <1>3, <1>5, <3>1
    <3>3. node'[t[k]] = node[List[k + 1]]
      BY <1>4, <3>2
    <3>4. k # n - 1 => t[k + 1] = List[k + 1 + 1]
      BY <1>2, <1>3
    <3>5. k = n - 1 <=> k + 1 = n
      BY <1>2
    <3>6. QED
      BY <1>5, <3>1, <3>3, <3>4, <3>5
  <2>2. QED
    BY <2>1
<1>7. \A k, j \in 1 .. n - 1 : t[k] = t[j] => k = j
  <2>1. ASSUME NEW k \in 1 .. n - 1, NEW j \in 1 .. n - 1, t[k] = t[j] PROVE k = j
    <3>1. k + 1 \in 1 .. n /\ j + 1 \in 1 .. n /\ List[k + 1] = List[j + 1]
      BY <1>2, <1>3, <2>1
    <3>2. k + 1 = j + 1
      BY <1>5, <3>1
    <3>3. QED
      BY <1>2, <3>2
  <2>2. QED
    BY <2>1
<1>8. front' = IF t = <<>> THEN NULL ELSE t[1]
  <2>1. 1 \in 1 .. n /\ node[front].next = IF 1 = n THEN NULL ELSE List[1 + 1]
    BY <1>2, <1>5
  <2>2. t = <<>> <=> n = 1
    BY <1>2, <1>3, EmptySeq
  <2>3. n # 1 => t[1] = List[1 + 1]
    BY <1>2, <1>3
  <2>4. QED
    BY <2>1, <2>2, <2>3
<1>9. Chain(t)'
  BY <1>3, <1>6, <1>7, <1>8 DEF Chain
<1>10. List' = t
  BY <1>3, <1>9, ListUniqueNext DEF ListUnique
<1>11. QED
  BY <1>a, <1>3, <1>9, <1>10 DEF ListIsChain

\* Nothing that the list depends on changes.
LEMMA ListStays ==
    ASSUME ListIsChain, front' = front, node' = node
    PROVE  ListIsChain' /\ List' = List
<1>1. List' = List
  BY DEF List, Length, link
<1>2. QED
  BY <1>1 DEF ListIsChain, Chain

-----------------------------------------------------------------------------
(* Steps and counts.                                                       *)

Threads == Balconies \cup {Main}

\* Only the thread that makes a step moves.
LEMMA Moves ==
    ASSUME TypeOK, NEW t \in Threads, NEW from, NEW to, Move(t, from, to)
    PROVE  /\ pc[t] = from /\ pc'[t] = to /\ state # "aborted"
           /\ \A u \in Threads \ {t} : pc'[u] = pc[u]
BY DEF TypeOK, Threads, Move

\* The numbers of balconies at some points.
LEMMA Counts ==
    /\ IsFiniteSet(InLine) /\ Cardinality(InLine) \in Nat
    /\ IsFiniteSet(Leaving) /\ Cardinality(Leaving) \in Nat
    /\ \A b \in InLine : Cardinality(InLine) > 0
    /\ \A b \in Leaving : Cardinality(Leaving) > 0
<1>1. /\ InLine \in SUBSET Balconies /\ Leaving \in SUBSET Balconies
      /\ IsFiniteSet(Balconies)
  BY BalconiesAssumption DEF InLine, Leaving
<1>2. /\ IsFiniteSet(InLine) /\ Cardinality(InLine) \in Nat
      /\ IsFiniteSet(Leaving) /\ Cardinality(Leaving) \in Nat
  BY <1>1, FS_Subset, FS_CardinalityType
<1>3. Cardinality(InLine) = 0 => InLine = {}
  BY <1>2, FS_EmptySet
<1>4. Cardinality(Leaving) = 0 => Leaving = {}
  BY <1>2, FS_EmptySet
<1>5. QED
  BY <1>2, <1>3, <1>4

\* The semaphores never exceed the places of the queue, nor the posts.
LEMMA Bounds ==
    ASSUME IInv
    PROVE  /\ full \in Nat /\ empty \in Nat /\ posted \in 0 .. n_threads
           /\ Len(List) \in Nat /\ ~Deleting => Len(List) <= n_threads
           /\ InService => /\ full <= n_threads
                           /\ pc[Main] \in {"unlock", "post_full"} => full < n_threads
                           /\ pc[Main] \in {"lock", "push", "walk"} => Len(List) < n_threads
           /\ ~InService => full <= n_threads + posted
           /\ \A b \in Balconies : pc[b] = "post_empty" => empty < n_threads
           /\ \A b \in InLine : InService => Len(List) > 0
<1>1. /\ full \in Nat /\ empty \in Nat /\ posted \in 0 .. n_threads
      /\ Len(List) \in Nat
  <2>1. TypeOK /\ ListKnown
    BY ListFacts DEF IInv
  <2>2. full \in Nat /\ empty \in Nat /\ posted \in 0 .. n_threads
    BY <2>1, CellsAreMany DEF TypeOK
  <2>3. Len(List) \in Nat
    BY <2>1 DEF ListKnown
  <2>4. QED
    BY <2>2, <2>3
<1>2. /\ InService => ~Deleting
      /\ \A b \in Balconies : pc[b] = "post_empty" => b \in Leaving /\ ~Deleting
  BY DEF InService, Deleting, Leaving, IInv, Phases
<1>3. FullCounts /\ EmptyCounts
  BY DEF IInv
<1>4. ~Deleting =>
        /\ Len(List) <= n_threads
        /\ pc[Main] \in {"lock", "push", "walk"} => Len(List) < n_threads
        /\ \A b \in Balconies : pc[b] = "post_empty" => empty < n_threads
  BY <1>1, <1>2, <1>3, Counts, CellsAreMany DEF EmptyCounts
<1>5. InService => /\ full <= n_threads
                   /\ pc[Main] \in {"unlock", "post_full"} => full < n_threads
                   /\ \A b \in InLine : Len(List) > 0
  BY <1>1, <1>2, <1>3, <1>4, Counts, CellsAreMany DEF FullCounts
<1>6. ~InService => full <= n_threads + posted
  BY <1>3 DEF FullCounts
<1>7. QED
  BY <1>1, <1>2, <1>4, <1>5, <1>6

\* The pointers that the threads follow are nodes of the list.
LEMMA PointersAreNodes ==
    ASSUME IInv
    PROVE  /\ \A c \in ToSet(List) : c \in Cells /\ node[c] # Free
           /\ \A c \in ToSet(List) :
                /\ node[c] \in [val : Requests, next : Pointers]
                /\ node[c].next # NULL => node[c].next \in ToSet(List)
           /\ front # NULL => front \in ToSet(List)
<1>1. ListKnown /\ TypeOK
  BY ListFacts DEF IInv
<1>2. ASSUME NEW c \in ToSet(List)
      PROVE  /\ c \in Cells /\ node[c] # Free
             /\ node[c] \in [val : Requests, next : Pointers]
             /\ node[c].next # NULL => node[c].next \in ToSet(List)
  <2>1. PICK i \in 1 .. Len(List) : c = List[i]
    BY <1>1 DEF ListKnown
  <2>2. c \in Cells /\ node[c] # Free
    BY <1>1, <2>1 DEF ListKnown
  <2>3. node[c] \in [val : Requests, next : Pointers]
    BY <1>1, <2>2 DEF TypeOK
  <2>4. node[c].next # NULL => i + 1 \in 1 .. Len(List) /\ node[c].next = List[i + 1]
    <3>1. node[c].next = IF i = Len(List) THEN NULL ELSE List[i + 1]
      BY <1>1, <2>1 DEF ListKnown
    <3>2. Len(List) \in Nat
      BY <1>1 DEF ListKnown
    <3>3. QED
      BY <3>1, <3>2
  <2>5. QED
    BY <1>1, <2>2, <2>3, <2>4 DEF ListKnown
<1>3. front # NULL => front \in ToSet(List)
  <2>1. front # NULL => front = List[1] /\ 1 \in 1 .. Len(List)
    <3>1. Len(List) \in Nat /\ front = IF Len(List) = 0 THEN NULL ELSE List[1]
      BY <1>1 DEF ListKnown
    <3>2. QED
      BY <3>1
  <2>2. QED
    BY <1>1, <2>1 DEF ListKnown
<1>4. QED
  BY <1>2, <1>3

\* A balcony that pops sees the node that it read, and no other thread does.
LEMMA Inner ==
    ASSUME IInv, NEW t \in Threads, NEW u \in Threads, Inside(t), Inside(u)
    PROVE  t = u
BY DEF IInv, MutexOwner, Threads

-----------------------------------------------------------------------------
(* Types and control.                                                      *)

\* No step of main breaks a type.
LEMMA MainTypes ==
    ASSUME IInv, MainStep
    PROVE  TypeOK'
<1> USE DEF memVars, mainVars, balconyVars, syncVars, Move, Lock
<1>0. TypeOK /\ n_threads \in Nat \ {0} /\ Arrivals \in Nat /\ Points
  BY CellsAreMany DEF IInv
<1>1. CASE ReadRequest
  <2>1. last_read' \in Requests /\ last_read' \in 0 .. Arrivals
    BY <1>0, <1>1 DEF ReadRequest, TypeOK, Requests
  <2>2. QED
    BY <1>0, <1>1, <2>1 DEF ReadRequest, TypeOK
<1>2. CASE ReadEndOfFile
  BY <1>0, <1>2 DEF ReadEndOfFile, TypeOK
<1>3. CASE CheckRequest
  <2>1. allocated' \subseteq Requests /\ request' \in Requests \cup {NoRequest}
    BY <1>0, <1>3 DEF CheckRequest, TypeOK
  <2>2. QED
    BY <1>0, <1>3, <2>1 DEF CheckRequest, TypeOK
<1>4. CASE WaitEmpty
  BY <1>0, <1>4 DEF WaitEmpty, TypeOK
<1>5. CASE Lock(Main, "lock", "push")
  BY <1>0, <1>5 DEF TypeOK
<1>6. CASE PushNew
  <2>1. request \in Requests
    BY <1>6 DEF PushNew, IInv, MainLocals, Unlinked
  <2>2. PICK c \in Cells : /\ node' = [node EXCEPT ![c] = new_queue_node(request)]
                           /\ new_node' = c
                           /\ front' = IF front = NULL THEN c ELSE front
    BY <1>6 DEF PushNew
  <2>3. new_queue_node(request) \in [val : Requests, next : Pointers]
    BY <2>1 DEF new_queue_node, Pointers
  <2>4. node' \in [Cells -> [val : Requests, next : Pointers] \cup {Free}]
    BY <1>0, <2>2, <2>3 DEF TypeOK
  <2>5. QED
    BY <1>0, <1>6, <2>2, <2>4 DEF PushNew, TypeOK, Pointers
<1>7. CASE PushWalk
  <2>1. iter \in ToSet(List) /\ node[iter].next # NULL
    BY <1>7 DEF PushWalk, IInv, Linking
  <2>2. node[iter].next \in Pointers
    BY <2>1, PointersAreNodes DEF Pointers
  <2>3. QED
    BY <1>0, <1>7, <2>2 DEF PushWalk, TypeOK
<1>8. CASE PushLink
  <2>1. iter \in ToSet(List) /\ new_node \in Cells
    BY <1>8 DEF PushLink, IInv, Linking
  <2>2. [node[iter] EXCEPT !.next = new_node] \in [val : Requests, next : Pointers]
    BY <2>1, PointersAreNodes DEF Pointers
  <2>3. iter \in Cells
    BY <2>1, PointersAreNodes
  <2>4. node' \in [Cells -> [val : Requests, next : Pointers] \cup {Free}]
    BY <1>0, <1>8, <2>2, <2>3 DEF PushLink, TypeOK
  <2>5. QED
    BY <1>0, <1>8, <2>4 DEF PushLink, TypeOK
<1>9. CASE MainUnlock
  BY <1>0, <1>9 DEF MainUnlock, TypeOK
<1>10. CASE PostFull
  <2>1. full < n_threads /\ full \in Nat
    BY <1>10, Bounds DEF PostFull, InService
  <2>2. full' \in 0 .. 2 * n_threads
    BY <1>0, <1>10, <2>1 DEF PostFull
  <2>3. QED
    BY <1>0, <1>10, <2>2 DEF PostFull, TypeOK
<1>11. CASE PostFinal
  <2>1. full <= n_threads + posted /\ full \in Nat /\ posted \in Nat /\ posted < n_threads
    BY <1>0, <1>11, Bounds DEF PostFinal, InService
  <2>2. full' \in 0 .. 2 * n_threads /\ posted' \in 0 .. n_threads
    BY <1>0, <1>11, <2>1 DEF PostFinal
  <2>3. QED
    BY <1>0, <1>11, <2>2 DEF PostFinal, TypeOK
<1>12. CASE Join
  BY <1>0, <1>12 DEF Join, TypeOK
<1>13. CASE DeleteQueue
  <2>1. front = NULL
    BY <1>13, CellsAreMany, BalconiesAssumption
       DEF DeleteQueue, IInv, Phases, Deleting, SawEmpty
  <2>2. QED
    BY <1>0, <1>13, <2>1 DEF DeleteQueue, TypeOK
<1>14. CASE DelSync
  BY <1>0, <1>14 DEF DelSync, TypeOK
<1>15. QED
  BY <1>1, <1>2, <1>3, <1>4, <1>5, <1>6, <1>7, <1>8, <1>9, <1>10, <1>11, <1>12,
     <1>13, <1>14 DEF MainStep

\* No step of a balcony breaks a type.
LEMMA BalconyTypes ==
    ASSUME IInv, NEW b \in Balconies, BalconyStep(b)
    PROVE  TypeOK'
<1> USE DEF memVars, mainVars, balconyVars, syncVars, Move, Lock, Holding
<1>0. TypeOK /\ n_threads \in Nat \ {0} /\ Points
  BY CellsAreMany DEF IInv
<1>1. CASE WaitFull(b)
  BY <1>0, <1>1 DEF WaitFull, TypeOK
<1>2. CASE Lock(b, "lock_check", "check")
  BY <1>0, <1>2 DEF TypeOK
<1>3. CASE IsQueueEmpty(b)
  <2>1. queue_empty' \in [Balconies -> BOOLEAN]
    BY <1>0, <1>3 DEF IsQueueEmpty, TypeOK
  <2>2. QED
    BY <1>0, <1>3, <2>1 DEF IsQueueEmpty, TypeOK
<1>4. CASE Decide(b)
  BY <1>0, <1>4 DEF Decide, TypeOK
<1>5. CASE Lock(b, "lock_take", "take")
  BY <1>0, <1>5 DEF TypeOK
<1>6. CASE QueueFront(b)
  <2>1. node[front].val \in Requests
    BY <1>6, PointersAreNodes DEF QueueFront
  <2>2. first_request' \in [Balconies -> Requests \cup {NoRequest}]
    BY <1>0, <1>6, <2>1 DEF QueueFront, TypeOK
  <2>3. QED
    BY <1>0, <1>6, <2>2 DEF QueueFront, TypeOK
<1>7. CASE QueueFrontFails(b)
  BY <1>0, <1>7 DEF QueueFrontFails, TypeOK
<1>8. CASE QueuePop(b)
  <2>1. front \in ToSet(List)
    BY <1>8, PointersAreNodes, CellsAreMany DEF QueuePop, IInv, Hands
  <2>2. front \in Cells /\ node[front].next \in Pointers
    BY <2>1, PointersAreNodes
  <2>3. node' \in [Cells -> [val : Requests, next : Pointers] \cup {Free}]
    BY <1>0, <1>8, <2>2 DEF QueuePop, TypeOK
  <2>4. QED
    BY <1>0, <1>8, <2>2, <2>3 DEF QueuePop, TypeOK
<1>9. CASE PostEmpty(b)
  <2>1. empty < n_threads /\ empty \in Nat
    BY <1>9, Bounds DEF PostEmpty
  <2>2. empty' \in 0 .. n_threads
    BY <1>0, <1>9, <2>1 DEF PostEmpty
  <2>3. QED
    BY <1>0, <1>9, <2>2 DEF PostEmpty, TypeOK
<1>10. CASE Serve(b)
  BY <1>0, <1>10 DEF Serve, TypeOK
<1>11. CASE FreeRequest(b)
  <2>1. first_request' \in [Balconies -> Requests \cup {NoRequest}]
    BY <1>0, <1>11 DEF FreeRequest, TypeOK
  <2>2. QED
    BY <1>0, <1>11, <2>1 DEF FreeRequest, TypeOK
<1>12. QED
  BY <1>1, <1>2, <1>3, <1>4, <1>5, <1>6, <1>7, <1>8, <1>9, <1>10, <1>11
     DEF BalconyStep

LEMMA MainPointsKept ==
    ASSUME IInv, MainStep
    PROVE  Points'
<1> USE DEF memVars, mainVars, balconyVars, syncVars, Move, Lock, MainPoints, BalconyPoints, Unlinked, Holding
<1>0. Points /\ DOMAIN pc = Balconies \cup {Main} /\ Main \notin Balconies
  BY CellsAreMany DEF IInv, TypeOK
<1>1. CASE ReadRequest
  BY <1>0, <1>1 DEF ReadRequest, Points
<1>2. CASE ReadEndOfFile
  BY <1>0, <1>2 DEF ReadEndOfFile, Points
<1>3. CASE CheckRequest
  BY <1>0, <1>3 DEF CheckRequest, Points
<1>4. CASE WaitEmpty
  BY <1>0, <1>4 DEF WaitEmpty, Points
<1>5. CASE Lock(Main, "lock", "push")
  BY <1>0, <1>5 DEF Points
<1>6. CASE PushNew
  BY <1>0, <1>6 DEF PushNew, Points
<1>7. CASE PushWalk
  BY <1>0, <1>7 DEF PushWalk, Points
<1>8. CASE PushLink
  BY <1>0, <1>8 DEF PushLink, Points
<1>9. CASE MainUnlock
  BY <1>0, <1>9 DEF MainUnlock, Points
<1>10. CASE PostFull
  BY <1>0, <1>10 DEF PostFull, Points
<1>11. CASE PostFinal
  BY <1>0, <1>11 DEF PostFinal, Points
<1>12. CASE Join
  BY <1>0, <1>12 DEF Join, Points
<1>13. CASE DeleteQueue
  BY <1>0, <1>13 DEF DeleteQueue, Points
<1>14. CASE DelSync
  BY <1>0, <1>14 DEF DelSync, Points
<1>15. QED
  BY <1>1, <1>2, <1>3, <1>4, <1>5, <1>6, <1>7, <1>8, <1>9, <1>10, <1>11,
     <1>12, <1>13, <1>14
     DEF MainStep

LEMMA BalconyPointsKept ==
    ASSUME IInv, NEW b \in Balconies, BalconyStep(b)
    PROVE  Points'
<1> USE DEF memVars, mainVars, balconyVars, syncVars, Move, Lock, MainPoints, BalconyPoints, Unlinked, Holding
<1>0. Points /\ DOMAIN pc = Balconies \cup {Main} /\ Main \notin Balconies
  BY CellsAreMany DEF IInv, TypeOK
<1>1. CASE WaitFull(b)
  BY <1>0, <1>1 DEF WaitFull, Points
<1>2. CASE Lock(b, "lock_check", "check")
  BY <1>0, <1>2 DEF Points
<1>3. CASE IsQueueEmpty(b)
  BY <1>0, <1>3 DEF IsQueueEmpty, Points
<1>4. CASE Decide(b)
  BY <1>0, <1>4 DEF Decide, Points
<1>5. CASE Lock(b, "lock_take", "take")
  BY <1>0, <1>5 DEF Points
<1>6. CASE QueueFront(b)
  BY <1>0, <1>6 DEF QueueFront, Points
<1>7. CASE QueueFrontFails(b)
  BY <1>0, <1>7 DEF QueueFrontFails, Points
<1>8. CASE QueuePop(b)
  BY <1>0, <1>8 DEF QueuePop, Points
<1>9. CASE PostEmpty(b)
  BY <1>0, <1>9 DEF PostEmpty, Points
<1>10. CASE Serve(b)
  BY <1>0, <1>10 DEF Serve, Points
<1>11. CASE FreeRequest(b)
  BY <1>0, <1>11 DEF FreeRequest, Points
<1>12. QED
  BY <1>1, <1>2, <1>3, <1>4, <1>5, <1>6, <1>7, <1>8, <1>9, <1>10, <1>11
     DEF BalconyStep

\* The mutex is owned where the critical sections say, whoever moves.
LEMMA MainMutexKept ==
    ASSUME IInv, MainStep
    PROVE  MutexOwner'
<1> USE DEF memVars, mainVars, balconyVars, syncVars, Move, Lock
<1>0. /\ MutexOwner /\ Points /\ DOMAIN pc = Balconies \cup {Main}
      /\ Main \notin Balconies /\ Nobody \notin Balconies \cup {Main}
  BY CellsAreMany DEF IInv, TypeOK
<1>1. CASE ReadRequest
  BY <1>0, <1>1 DEF ReadRequest, MutexOwner, Inside
<1>2. CASE ReadEndOfFile
  BY <1>0, <1>2 DEF ReadEndOfFile, MutexOwner, Inside
<1>3. CASE CheckRequest
  BY <1>0, <1>3 DEF CheckRequest, MutexOwner, Inside
<1>4. CASE WaitEmpty
  BY <1>0, <1>4 DEF WaitEmpty, MutexOwner, Inside
<1>5. CASE Lock(Main, "lock", "push")
  BY <1>0, <1>5 DEF MutexOwner, Inside
<1>6. CASE PushNew
  BY <1>0, <1>6 DEF PushNew, MutexOwner, Inside
<1>7. CASE PushWalk
  BY <1>0, <1>7 DEF PushWalk, MutexOwner, Inside
<1>8. CASE PushLink
  BY <1>0, <1>8 DEF PushLink, MutexOwner, Inside
<1>9. CASE MainUnlock
  BY <1>0, <1>9 DEF MainUnlock, MutexOwner, Inside
<1>10. CASE PostFull
  BY <1>0, <1>10 DEF PostFull, MutexOwner, Inside
<1>11. CASE PostFinal
  BY <1>0, <1>11 DEF PostFinal, MutexOwner, Inside
<1>12. CASE Join
  BY <1>0, <1>12 DEF Join, MutexOwner, Inside
<1>13. CASE DeleteQueue
  BY <1>0, <1>13 DEF DeleteQueue, MutexOwner, Inside
<1>14. CASE DelSync
  BY <1>0, <1>14 DEF DelSync, MutexOwner, Inside
<1>15. QED
  BY <1>1, <1>2, <1>3, <1>4, <1>5, <1>6, <1>7, <1>8, <1>9, <1>10, <1>11,
     <1>12, <1>13, <1>14
     DEF MainStep

LEMMA BalconyMutexKept ==
    ASSUME IInv, NEW b \in Balconies, BalconyStep(b)
    PROVE  MutexOwner'
<1> USE DEF memVars, mainVars, balconyVars, syncVars, Move, Lock
<1>0. /\ MutexOwner /\ Points /\ DOMAIN pc = Balconies \cup {Main}
      /\ Main \notin Balconies /\ Nobody \notin Balconies \cup {Main}
  BY CellsAreMany DEF IInv, TypeOK
<1>1. CASE WaitFull(b)
  BY <1>0, <1>1 DEF WaitFull, MutexOwner, Inside
<1>2. CASE Lock(b, "lock_check", "check")
  BY <1>0, <1>2 DEF MutexOwner, Inside
<1>3. CASE IsQueueEmpty(b)
  BY <1>0, <1>3 DEF IsQueueEmpty, MutexOwner, Inside
<1>4. CASE Decide(b)
  BY <1>0, <1>4 DEF Decide, MutexOwner, Inside
<1>5. CASE Lock(b, "lock_take", "take")
  BY <1>0, <1>5 DEF MutexOwner, Inside
<1>6. CASE QueueFront(b)
  BY <1>0, <1>6 DEF QueueFront, MutexOwner, Inside
<1>7. CASE QueueFrontFails(b)
  BY <1>0, <1>7 DEF QueueFrontFails, MutexOwner, Inside
<1>8. CASE QueuePop(b)
  BY <1>0, <1>8 DEF QueuePop, MutexOwner, Inside
<1>9. CASE PostEmpty(b)
  BY <1>0, <1>9 DEF PostEmpty, MutexOwner, Inside
<1>10. CASE Serve(b)
  BY <1>0, <1>10 DEF Serve, MutexOwner, Inside
<1>11. CASE FreeRequest(b)
  BY <1>0, <1>11 DEF FreeRequest, MutexOwner, Inside
<1>12. QED
  BY <1>1, <1>2, <1>3, <1>4, <1>5, <1>6, <1>7, <1>8, <1>9, <1>10, <1>11
     DEF BalconyStep

\* A balcony meets an empty queue only when main has left its loop, and main deletes the
\* queue only when every balcony has ended.
LEMMA MainPhasesKept ==
    ASSUME IInv, MainStep
    PROVE  Phases'
<1> USE DEF memVars, mainVars, balconyVars, syncVars, Move, Lock
<1>0. /\ Phases /\ DOMAIN pc = Balconies \cup {Main}
      /\ Main \notin Balconies
  BY CellsAreMany DEF IInv, TypeOK
<1>1. CASE ReadRequest
  BY <1>0, <1>1 DEF ReadRequest, Phases, InService, Deleting, SawEmpty
<1>2. CASE ReadEndOfFile
  BY <1>0, <1>2 DEF ReadEndOfFile, Phases, InService, Deleting, SawEmpty
<1>3. CASE CheckRequest
  BY <1>0, <1>3 DEF CheckRequest, Phases, InService, Deleting, SawEmpty
<1>4. CASE WaitEmpty
  BY <1>0, <1>4 DEF WaitEmpty, Phases, InService, Deleting, SawEmpty
<1>5. CASE Lock(Main, "lock", "push")
  BY <1>0, <1>5 DEF Phases, InService, Deleting, SawEmpty
<1>6. CASE PushNew
  BY <1>0, <1>6 DEF PushNew, Phases, InService, Deleting, SawEmpty
<1>7. CASE PushWalk
  BY <1>0, <1>7 DEF PushWalk, Phases, InService, Deleting, SawEmpty
<1>8. CASE PushLink
  BY <1>0, <1>8 DEF PushLink, Phases, InService, Deleting, SawEmpty
<1>9. CASE MainUnlock
  BY <1>0, <1>9 DEF MainUnlock, Phases, InService, Deleting, SawEmpty
<1>10. CASE PostFull
  BY <1>0, <1>10 DEF PostFull, Phases, InService, Deleting, SawEmpty
<1>11. CASE PostFinal
  BY <1>0, <1>11 DEF PostFinal, Phases, InService, Deleting, SawEmpty
<1>12. CASE Join
  BY <1>0, <1>12 DEF Join, Phases, InService, Deleting, SawEmpty
<1>13. CASE DeleteQueue
  BY <1>0, <1>13 DEF DeleteQueue, Phases, InService, Deleting, SawEmpty
<1>14. CASE DelSync
  BY <1>0, <1>14 DEF DelSync, Phases, InService, Deleting, SawEmpty
<1>15. QED
  BY <1>1, <1>2, <1>3, <1>4, <1>5, <1>6, <1>7, <1>8, <1>9, <1>10, <1>11,
     <1>12, <1>13, <1>14
     DEF MainStep

LEMMA BalconyPhasesKept ==
    ASSUME IInv, NEW b \in Balconies, BalconyStep(b)
    PROVE  Phases'
<1> USE DEF memVars, mainVars, balconyVars, syncVars, Move, Lock
<1>0. /\ Phases /\ DOMAIN pc = Balconies \cup {Main}
      /\ Main \notin Balconies
  BY CellsAreMany DEF IInv, TypeOK
<1>1. CASE WaitFull(b)
  BY <1>0, <1>1 DEF WaitFull, Phases, InService, Deleting, SawEmpty
<1>2. CASE Lock(b, "lock_check", "check")
  BY <1>0, <1>2 DEF Phases, InService, Deleting, SawEmpty
<1>3. CASE IsQueueEmpty(b)
  <2>1. front = NULL => ~InService
    <3>1. b \in InLine
      BY <1>3 DEF IsQueueEmpty, InLine
    <3>2. InService => Len(List) > 0
      BY <3>1, Bounds
    <3>3. ListKnown
      BY ListFacts DEF IInv
    <3>4. front = NULL => Len(List) = 0
      BY <3>3 DEF ListKnown
    <3>5. QED
      BY <3>2, <3>4
  <2>2. queue_empty'[b] = (front = NULL) /\
        \A c \in Balconies \ {b} : queue_empty'[c] = queue_empty[c]
    BY <1>3 DEF IsQueueEmpty, IInv, TypeOK
  <2>3. QED
    BY <1>0, <1>3, <2>1, <2>2 DEF IsQueueEmpty, Phases, InService, Deleting, SawEmpty
<1>4. CASE Decide(b)
  BY <1>0, <1>4 DEF Decide, Phases, InService, Deleting, SawEmpty
<1>5. CASE Lock(b, "lock_take", "take")
  BY <1>0, <1>5 DEF Phases, InService, Deleting, SawEmpty
<1>6. CASE QueueFront(b)
  BY <1>0, <1>6 DEF QueueFront, Phases, InService, Deleting, SawEmpty
<1>7. CASE QueueFrontFails(b)
  BY <1>0, <1>7 DEF QueueFrontFails, Phases, InService, Deleting, SawEmpty
<1>8. CASE QueuePop(b)
  <2>1. front # NULL
    BY <1>8, CellsAreMany DEF QueuePop, IInv, Hands
  <2>2. QED
    BY <1>0, <1>8, <2>1 DEF QueuePop, Phases, InService, Deleting, SawEmpty
<1>9. CASE PostEmpty(b)
  BY <1>0, <1>9 DEF PostEmpty, Phases, InService, Deleting, SawEmpty
<1>10. CASE Serve(b)
  BY <1>0, <1>10 DEF Serve, Phases, InService, Deleting, SawEmpty
<1>11. CASE FreeRequest(b)
  BY <1>0, <1>11 DEF FreeRequest, Phases, InService, Deleting, SawEmpty
<1>12. QED
  BY <1>1, <1>2, <1>3, <1>4, <1>5, <1>6, <1>7, <1>8, <1>9, <1>10, <1>11
     DEF BalconyStep

LEMMA MainLocalsKept ==
    ASSUME IInv, MainStep
    PROVE  MainLocals'
<1> USE DEF memVars, mainVars, balconyVars, syncVars, Move, Lock
<1>0. /\ MainLocals /\ DOMAIN pc = Balconies \cup {Main} /\ Main \notin Balconies
      /\ last_read \in Nat /\ Arrivals \in Nat
  BY CellsAreMany DEF IInv, TypeOK
<1>1. CASE ReadRequest
  BY <1>0, <1>1 DEF ReadRequest, MainLocals, Unlinked, Requests, NoRequest
<1>2. CASE ReadEndOfFile
  BY <1>0, <1>2 DEF ReadEndOfFile, MainLocals, Unlinked, Requests, NoRequest
<1>3. CASE CheckRequest
  BY <1>0, <1>3 DEF CheckRequest, MainLocals, Unlinked, Requests, NoRequest
<1>4. CASE WaitEmpty
  BY <1>0, <1>4 DEF WaitEmpty, MainLocals, Unlinked, Requests, NoRequest
<1>5. CASE Lock(Main, "lock", "push")
  BY <1>0, <1>5 DEF MainLocals, Unlinked, Requests, NoRequest
<1>6. CASE PushNew
  BY <1>0, <1>6 DEF PushNew, MainLocals, Unlinked, Requests, NoRequest
<1>7. CASE PushWalk
  BY <1>0, <1>7 DEF PushWalk, MainLocals, Unlinked, Requests, NoRequest
<1>8. CASE PushLink
  BY <1>0, <1>8 DEF PushLink, MainLocals, Unlinked, Requests, NoRequest
<1>9. CASE MainUnlock
  BY <1>0, <1>9 DEF MainUnlock, MainLocals, Unlinked, Requests, NoRequest
<1>10. CASE PostFull
  BY <1>0, <1>10 DEF PostFull, MainLocals, Unlinked, Requests, NoRequest
<1>11. CASE PostFinal
  BY <1>0, <1>11 DEF PostFinal, MainLocals, Unlinked, Requests, NoRequest
<1>12. CASE Join
  BY <1>0, <1>12 DEF Join, MainLocals, Unlinked, Requests, NoRequest
<1>13. CASE DeleteQueue
  BY <1>0, <1>13 DEF DeleteQueue, MainLocals, Unlinked, Requests, NoRequest
<1>14. CASE DelSync
  BY <1>0, <1>14 DEF DelSync, MainLocals, Unlinked, Requests, NoRequest
<1>15. QED
  BY <1>1, <1>2, <1>3, <1>4, <1>5, <1>6, <1>7, <1>8, <1>9, <1>10, <1>11,
     <1>12, <1>13, <1>14
     DEF MainStep

LEMMA BalconyLocalsKept ==
    ASSUME IInv, NEW b \in Balconies, BalconyStep(b)
    PROVE  MainLocals'
<1> USE DEF memVars, mainVars, balconyVars, syncVars, Move, Lock
<1>0. /\ MainLocals /\ DOMAIN pc = Balconies \cup {Main} /\ Main \notin Balconies
      /\ last_read \in Nat /\ Arrivals \in Nat
  BY CellsAreMany DEF IInv, TypeOK
<1>1. CASE WaitFull(b)
  BY <1>0, <1>1 DEF WaitFull, MainLocals, Unlinked, Requests, NoRequest
<1>2. CASE Lock(b, "lock_check", "check")
  BY <1>0, <1>2 DEF MainLocals, Unlinked, Requests, NoRequest
<1>3. CASE IsQueueEmpty(b)
  BY <1>0, <1>3 DEF IsQueueEmpty, MainLocals, Unlinked, Requests, NoRequest
<1>4. CASE Decide(b)
  BY <1>0, <1>4 DEF Decide, MainLocals, Unlinked, Requests, NoRequest
<1>5. CASE Lock(b, "lock_take", "take")
  BY <1>0, <1>5 DEF MainLocals, Unlinked, Requests, NoRequest
<1>6. CASE QueueFront(b)
  BY <1>0, <1>6 DEF QueueFront, MainLocals, Unlinked, Requests, NoRequest
<1>7. CASE QueueFrontFails(b)
  BY <1>0, <1>7 DEF QueueFrontFails, MainLocals, Unlinked, Requests, NoRequest
<1>8. CASE QueuePop(b)
  BY <1>0, <1>8 DEF QueuePop, MainLocals, Unlinked, Requests, NoRequest
<1>9. CASE PostEmpty(b)
  BY <1>0, <1>9 DEF PostEmpty, MainLocals, Unlinked, Requests, NoRequest
<1>10. CASE Serve(b)
  BY <1>0, <1>10 DEF Serve, MainLocals, Unlinked, Requests, NoRequest
<1>11. CASE FreeRequest(b)
  BY <1>0, <1>11 DEF FreeRequest, MainLocals, Unlinked, Requests, NoRequest
<1>12. QED
  BY <1>1, <1>2, <1>3, <1>4, <1>5, <1>6, <1>7, <1>8, <1>9, <1>10, <1>11
     DEF BalconyStep

-----------------------------------------------------------------------------
(* What the steps do to the list.                                          *)

\* Only a put and a pop change the memory; del_queue finds it empty, for the
\* balconies leave when they have seen an empty queue.
LEMMA MainQuiet ==
    ASSUME IInv, MainStep
    PROVE  PushNew \/ PushLink \/ (front' = front /\ node' = node)
<1> SUFFICES ASSUME ~PushNew, ~PushLink PROVE front' = front /\ node' = node
  OBVIOUS
<1>1. CASE DeleteQueue
  <2>1. front = NULL
    BY <1>1, CellsAreMany, BalconiesAssumption
       DEF DeleteQueue, Move, IInv, Phases, Deleting, SawEmpty
  <2>2. QED
    BY <1>1, <2>1 DEF DeleteQueue
<1>2. CASE ~DeleteQueue
  BY <1>2 DEF MainStep, memVars, ReadRequest, ReadEndOfFile, CheckRequest, WaitEmpty, Lock,
     PushWalk, MainUnlock, PostFull, PostFinal, Join, DelSync
<1>3. QED
  BY <1>1, <1>2

\* A balcony changes the list only by a pop.
LEMMA BalconyQuiet ==
    ASSUME NEW b \in Balconies, BalconyStep(b)
    PROVE  QueuePop(b) \/ (front' = front /\ node' = node)
BY DEF BalconyStep, memVars, WaitFull, Lock, IsQueueEmpty, Decide, QueueFront,
   QueueFrontFails, PostEmpty, Serve, FreeRequest

\* The elements of a sequence, by their places.
LEMMA ElementsAre ==
    ASSUME NEW S, NEW s \in Seq(S)
    PROVE  \A x : x \in ToSet(s) <=> \E i \in 1 .. Len(s) : x = s[i]
<1>1. DOMAIN s = 1 .. Len(s)
  BY LenProperties
<1>2. QED
  BY <1>1 DEF ToSet

\* The elements after an append.
LEMMA ElementsOfAppend ==
    ASSUME NEW S, NEW s \in Seq(S), NEW c \in S
    PROVE  Len(Append(s, c)) = Len(s) + 1 /\ ToSet(Append(s, c)) = ToSet(s) \cup {c}
<1>1. /\ Append(s, c) \in Seq(S) /\ Len(Append(s, c)) = Len(s) + 1 /\ Len(s) \in Nat
      /\ Append(s, c)[Len(s) + 1] = c
      /\ \A i \in 1 .. Len(s) : Append(s, c)[i] = s[i]
  BY AppendProperties, LenProperties
<1>2. \A x : x \in ToSet(Append(s, c)) <=> \E i \in 1 .. Len(s) + 1 : x = Append(s, c)[i]
  <2>1. PICK u : u = Append(s, c)
    OBVIOUS
  <2>2. u \in Seq(S) /\ Len(u) = Len(s) + 1
    BY <1>1, <2>1
  <2>3. \A x : x \in ToSet(u) <=> \E i \in 1 .. Len(u) : x = u[i]
    BY <2>2, ElementsAre
  <2>4. \A x : x \in ToSet(u) <=> \E i \in 1 .. Len(s) + 1 : x = u[i]
    BY <2>2, <2>3
  <2>5. QED
    BY <2>1, <2>4
<1>3. \A x : x \in ToSet(s) <=> \E i \in 1 .. Len(s) : x = s[i]
  BY ElementsAre
<1>4. 1 .. Len(s) + 1 = 1 .. Len(s) \cup {Len(s) + 1}
  BY <1>1
<1>5. \A x : x \in ToSet(Append(s, c)) <=> x \in ToSet(s) \/ x = c
  <2>1. ASSUME NEW x \in ToSet(Append(s, c)) PROVE x \in ToSet(s) \/ x = c
    <3>1. PICK i \in 1 .. Len(s) + 1 : x = Append(s, c)[i]
      BY <1>2
    <3>2. CASE i = Len(s) + 1
      BY <1>1, <3>1, <3>2
    <3>3. CASE i \in 1 .. Len(s)
      BY <1>1, <1>3, <3>1, <3>3
    <3>4. QED
      BY <1>4, <3>2, <3>3
  <2>2. \A i \in 1 .. Len(s) : i \in 1 .. Len(s) + 1
    BY <1>4
  <2>3. \A x : x \in ToSet(s) => x \in ToSet(Append(s, c))
    BY <1>1, <1>2, <1>3, <2>2
  <2>4. c \in ToSet(Append(s, c))
    BY <1>1, <1>2, <1>4
  <2>5. QED
    BY <2>1, <2>3, <2>4
<1>6. QED
  BY <1>1, <1>5

\* A push on an empty list: the new node is the list.
LEMMA PushNewFirst ==
    ASSUME IInv, PushNew, front = NULL
    PROVE  /\ List = <<>> /\ Len(List) = 0 /\ ToSet(List) = {} /\ ListIsChain'
           /\ \E c \in Cells :
                /\ node[c] = Free /\ node'[c] = new_queue_node(request)
                /\ \A d \in Cells \ {c} : node'[d] = node[d]
                /\ List' = <<c>> /\ Len(List') = 1 /\ ToSet(List') = {c}
<1>1. TypeOK /\ ListKnown /\ request \in Requests
  BY ListFacts DEF IInv, PushNew, Move, MainLocals, Unlinked
<1>2. List = <<>> /\ Len(List) = 0 /\ ToSet(List) = {}
  BY <1>1 DEF ListKnown
<1>3. PICK c \in Cells : /\ node[c] = Free
                         /\ node' = [node EXCEPT ![c] = new_queue_node(request)]
                         /\ front' = c
  BY DEF PushNew
<1>4. ListIsChain' /\ List' = <<c>>
  BY <1>1, <1>3, ListOfFirst
<1>5. Len(List') = 1 /\ ToSet(List') = {c}
  BY <1>4 DEF ToSet
<1>6. node'[c] = new_queue_node(request) /\ \A d \in Cells \ {c} : node'[d] = node[d]
  BY <1>1, <1>3 DEF TypeOK
<1>7. QED
  BY <1>2, <1>3, <1>4, <1>5, <1>6

\* A push on a list with nodes first allocates: main has a node that is not in the list.
LEMMA PushNewBehind ==
    ASSUME IInv, PushNew, front # NULL
    PROVE  /\ List' = List /\ ListIsChain' /\ iter' = front /\ front \in ToSet(List)
           /\ new_node' \in Cells \ ToSet(List)
           /\ node[new_node'] = Free /\ node'[new_node'] = new_queue_node(request)
           /\ \A d \in Cells \ {new_node'} : node'[d] = node[d]
<1>1. TypeOK /\ ListKnown /\ ListIsChain /\ front \in ToSet(List) /\ iter' = front
  BY ListFacts, PointersAreNodes DEF IInv, PushNew
<1>2. PICK c \in Cells : /\ node[c] = Free
                         /\ node' = [node EXCEPT ![c] = new_queue_node(request)]
                         /\ front' = front /\ new_node' = c
  BY DEF PushNew
<1>3. c \notin ToSet(List)
  BY <1>2, PointersAreNodes
<1>4. node'[c] = new_queue_node(request) /\ \A d \in Cells \ {c} : node'[d] = node[d]
  BY <1>1, <1>2 DEF TypeOK
<1>5. PICK t : t = List
  OBVIOUS
<1>6. t \in Seq(Cells) /\ \A i \in 1 .. Len(t) : t[i] \in Cells \ {c}
  BY <1>1, <1>3, <1>5 DEF ListKnown
<1>7. Chain(t)
  BY <1>1, <1>5 DEF ListIsChain
<1>8. Chain(t)'
  BY <1>2, <1>4, <1>6, <1>7 DEF Chain
<1>9. List' = t
  BY <1>6, <1>8, ListUniqueNext DEF ListUnique
<1>10. ListIsChain'
  BY <1>6, <1>8, <1>9 DEF ListIsChain
<1>11. QED
  BY <1>1, <1>2, <1>3, <1>4, <1>5, <1>9, <1>10

\* The link appends that node, for the walk has ended at the last one.
LEMMA PushLinkAppends ==
    ASSUME IInv, PushLink
    PROVE  /\ ListIsChain' /\ new_node \in Cells \ ToSet(List)
           /\ node[new_node] = new_queue_node(request)
           /\ List' = Append(List, new_node) /\ Len(List') = Len(List) + 1
           /\ ToSet(List') = ToSet(List) \cup {new_node}
           /\ \A c \in Cells : /\ node'[c].val = node[c].val
                               /\ node'[c] # Free <=> node[c] # Free
<1>1. TypeOK /\ ListKnown /\ ListIsChain /\ request \in Requests
  BY ListFacts DEF IInv, PushLink, Move, MainLocals, Unlinked
<1>2. /\ iter \in ToSet(List) /\ new_node \in Cells \ ToSet(List)
      /\ node[new_node] = new_queue_node(request)
  BY DEF IInv, PushLink, Move, Linking
<1>3. node[new_node].next = NULL /\ node[new_node] # Free
  BY <1>1, <1>2, CellsAreMany DEF new_queue_node, Free
<1>4. PICK i, c : i = iter /\ c = new_node
  OBVIOUS
<1>5. /\ node[i].next = NULL /\ node' = [node EXCEPT ![i].next = c] /\ front' = front
      /\ i \in ToSet(List) /\ c \in Cells \ ToSet(List)
      /\ node[c].next = NULL /\ node[c] # Free
  BY <1>2, <1>3, <1>4 DEF PushLink, memVars
<1>6. ListIsChain' /\ List' = Append(List, c)
  BY <1>1, <1>5, ListOfLink
<1>7. PICK s : s = List
  OBVIOUS
<1>8. s \in Seq(Cells)
  BY <1>1, <1>7 DEF ListKnown
<1>9. Len(Append(s, c)) = Len(s) + 1 /\ ToSet(Append(s, c)) = ToSet(s) \cup {c}
  BY <1>5, <1>8, ElementsOfAppend
<1>10. i \in Cells /\ node[i] \in [val : Requests, next : Pointers] /\ node[i] # Free
  BY <1>5, PointersAreNodes
<1>11. \A d \in Cells : node'[d] = IF d = i THEN [node[i] EXCEPT !.next = c] ELSE node[d]
  BY <1>1, <1>5 DEF TypeOK
<1>12. [node[i] EXCEPT !.next = c].val = node[i].val /\ [node[i] EXCEPT !.next = c] # Free
  BY <1>10, CellsAreMany DEF Free
<1>13. QED
  BY <1>2, <1>4, <1>6, <1>7, <1>9, <1>10, <1>11, <1>12

\* A pop takes the first node, which is there, and frees it.
LEMMA QueuePopTakes ==
    ASSUME IInv, NEW b \in Balconies, QueuePop(b)
    PROVE  /\ ListIsChain' /\ front \in ToSet(List) /\ front = List[1]
           /\ List # <<>> /\ List' = Tail(List) /\ Len(List) # 0
           /\ Len(List') = Len(List) - 1
           /\ \A i \in 1 .. Len(List) - 1 : List'[i] = List[i + 1]
           /\ ToSet(List') = ToSet(List) \ {front}
           /\ node'[front] = Free
           /\ \A c \in Cells \ {front} : node'[c] = node[c]
<1>1. TypeOK /\ ListKnown /\ ListIsChain
  BY ListFacts DEF IInv
<1>2. front # NULL
  BY CellsAreMany DEF QueuePop, Move, IInv, Hands
<1>3. front \in ToSet(List) /\ front \in Cells
  BY <1>2, PointersAreNodes
<1>4. /\ front' = node[front].next /\ node' = [node EXCEPT ![front] = Free]
  BY DEF QueuePop
<1>5. ListIsChain' /\ List' = Tail(List)
  BY <1>1, <1>2, <1>4, ListOfPop
<1>6. Len(List) \in Nat /\ Len(List) # 0 /\ List # <<>> /\ front = List[1]
  BY <1>1, <1>2 DEF ListKnown
<1>7. PICK s : s = List
  OBVIOUS
<1>8. s \in Seq(Cells) /\ s # <<>>
  BY <1>1, <1>6, <1>7 DEF ListKnown
<1>9. Len(Tail(s)) = Len(s) - 1 /\ \A i \in 1 .. Len(s) - 1 : Tail(s)[i] = s[i + 1]
  BY <1>8, HeadTailProperties
<1>10. ToSet(Tail(s)) = ToSet(s) \ {s[1]}
  <2>1. Tail(s) \in Seq(Cells) /\ Len(s) \in Nat /\ Len(s) # 0
    BY <1>6, <1>7, <1>8, HeadTailProperties
  <2>2. \A i, j \in 1 .. Len(s) : s[i] = s[j] => i = j
    BY <1>1, <1>7 DEF ListKnown
  <2>3. \A x : x \in ToSet(Tail(s)) <=> \E i \in 1 .. Len(s) - 1 : x = s[i + 1]
    <3>1. PICK u : u = Tail(s)
      OBVIOUS
    <3>2. u \in Seq(Cells) /\ Len(u) = Len(s) - 1
      BY <1>9, <2>1, <3>1
    <3>3. \A x : x \in ToSet(u) <=> \E i \in 1 .. Len(u) : x = u[i]
      BY <3>2, ElementsAre
    <3>4. \A i \in 1 .. Len(s) - 1 : u[i] = s[i + 1]
      BY <1>9, <3>1
    <3>5. \A x : x \in ToSet(u) <=> \E i \in 1 .. Len(s) - 1 : x = s[i + 1]
      BY <3>2, <3>3, <3>4
    <3>6. QED
      BY <3>1, <3>5
  <2>4. \A x : x \in ToSet(s) <=> \E i \in 1 .. Len(s) : x = s[i]
    BY <1>1, <1>7 DEF ListKnown
  <2>5. ASSUME NEW x \in ToSet(Tail(s)) PROVE x \in ToSet(s) \ {s[1]}
    <3>1. PICK i \in 1 .. Len(s) - 1 : x = s[i + 1]
      BY <2>3
    <3>2. i + 1 \in 1 .. Len(s) /\ 1 \in 1 .. Len(s) /\ i + 1 # 1
      BY <2>1
    <3>3. QED
      BY <2>2, <2>4, <3>1, <3>2
  <2>6. ASSUME NEW x \in ToSet(s) \ {s[1]} PROVE x \in ToSet(Tail(s))
    <3>1. PICK i \in 1 .. Len(s) : x = s[i]
      BY <2>4
    <3>2. i # 1
      BY <3>1
    <3>3. i - 1 \in 1 .. Len(s) - 1 /\ i - 1 + 1 = i
      BY <2>1, <3>2
    <3>4. QED
      BY <2>3, <3>1, <3>3
  <2>7. QED
    BY <2>5, <2>6
<1>11. node'[front] = Free /\ \A c \in Cells \ {front} : node'[c] = node[c]
  BY <1>1, <1>3, <1>4 DEF TypeOK
<1>12. QED
  BY <1>3, <1>5, <1>6, <1>7, <1>9, <1>10, <1>11

Puts == PushLink \/ (PushNew /\ front = NULL)

\* How many requests were put, against how many were read.
LEMMA PutType ==
    ASSUME IInv
    PROVE  /\ Put \in Nat /\ last_read \in Nat /\ Put <= last_read
           /\ pc[Main] \in Unlinked => request = Put + 1 /\ last_read = Put + 1
<1>1. last_read \in Nat /\ Arrivals \in Nat
  BY CellsAreMany DEF IInv, TypeOK
<1>2. /\ request \in Requests => request = last_read
      /\ pc[Main] \in Unlinked => request \in Requests
  BY DEF IInv, MainLocals
<1>3. pc[Main] \in Unlinked => request = last_read /\ last_read > 0
  BY <1>1, <1>2 DEF Requests
<1>4. QED
  BY <1>1, <1>3 DEF Put, NotPut

\* Only a put counts.
LEMMA MainPut ==
    ASSUME IInv, MainStep
    PROVE  (Puts => Put' = Put + 1) /\ (~Puts => Put' = Put)
<1> USE DEF memVars, mainVars, balconyVars, syncVars, Move, Lock
<1>0. /\ DOMAIN pc = Balconies \cup {Main} /\ last_read \in Nat
      /\ pc[Main] \in Unlinked => request = last_read /\ last_read > 0
      /\ pc[Main] = "read" => (request = NoRequest => last_read = 0)
      /\ pc[Main] \in {"unlock", "post_full"} => request # NoRequest
  BY PutType, CellsAreMany DEF IInv, TypeOK, MainLocals
<1>1. CASE ReadRequest
  BY <1>0, <1>1 DEF ReadRequest, Put, NotPut, Unlinked, Puts, PushLink, PushNew
<1>2. CASE ReadEndOfFile
  BY <1>0, <1>2 DEF ReadEndOfFile, Put, NotPut, Unlinked, Puts, PushLink, PushNew
<1>3. CASE CheckRequest
  BY <1>0, <1>3 DEF CheckRequest, Put, NotPut, Unlinked, Puts, PushLink, PushNew
<1>4. CASE PushNew
  <2>1. request # NoRequest /\ pc[Main] \in Unlinked
    BY <1>4, CellsAreMany DEF PushNew, Unlinked, IInv, MainLocals
  <2>2. Puts <=> front = NULL
    BY <1>4 DEF Puts, PushNew, PushLink
  <2>3. /\ last_read' = last_read /\ request' = request
        /\ pc'[Main] = IF front = NULL THEN "unlock" ELSE "walk"
    BY <1>0, <1>4 DEF PushNew
  <2>4. QED
    BY <1>0, <2>1, <2>2, <2>3 DEF Put, NotPut, Unlinked
<1>5. CASE PushLink
  <2>1. request # NoRequest /\ pc[Main] \in Unlinked /\ Puts
    BY <1>5, CellsAreMany DEF PushLink, Unlinked, IInv, MainLocals, Puts
  <2>2. last_read' = last_read /\ request' = request /\ pc'[Main] = "unlock"
    BY <1>0, <1>5 DEF PushLink
  <2>3. QED
    BY <1>0, <2>1, <2>2 DEF Put, NotPut, Unlinked
<1>6. CASE ~ReadRequest /\ ~ReadEndOfFile /\ ~CheckRequest /\ ~PushNew /\ ~PushLink
  <2>1. last_read' = last_read /\ request' = request /\ ~Puts
    BY <1>6 DEF Puts, MainStep, WaitEmpty, PushWalk, MainUnlock, PostFull, PostFinal, Join,
       DeleteQueue, DelSync
  <2>2. pc[Main] \in Unlinked <=> pc'[Main] \in Unlinked
    BY <1>0, <1>6 DEF MainStep, Unlinked, WaitEmpty, PushWalk, MainUnlock, PostFull,
       PostFinal, Join, DeleteQueue, DelSync
  <2>3. QED
    BY <2>1, <2>2 DEF Put, NotPut
<1>7. QED
  BY <1>1, <1>2, <1>3, <1>4, <1>5, <1>6

\* What a balcony leaves alone.
LEMMA BalconyLeaves ==
    ASSUME IInv, NEW b \in Balconies, BalconyStep(b)
    PROVE  /\ pc'[Main] = pc[Main] /\ Put' = Put
           /\ UNCHANGED <<new_node, iter, request, last_read, posted>>
           /\ \A c \in Balconies \ {b} : pc'[c] = pc[c] /\ first_request'[c] = first_request[c]
<1> USE DEF memVars, mainVars, balconyVars, syncVars, Move, Lock
<1>1. /\ pc'[Main] = pc[Main] /\ \A c \in Balconies \ {b} : pc'[c] = pc[c]
  <2>1. DOMAIN pc = Balconies \cup {Main} /\ Main \notin Balconies
    BY CellsAreMany DEF IInv, TypeOK
  <2>2. QED
    BY <2>1 DEF BalconyStep, WaitFull, IsQueueEmpty, Decide, QueueFront, QueueFrontFails,
       QueuePop, PostEmpty, Serve, FreeRequest
<1>2. UNCHANGED <<new_node, iter, request, last_read, posted>>
  BY DEF BalconyStep, WaitFull, IsQueueEmpty, Decide, QueueFront, QueueFrontFails,
     QueuePop, PostEmpty, Serve, FreeRequest
<1>3. \A c \in Balconies \ {b} : first_request'[c] = first_request[c]
  <2>1. DOMAIN first_request = Balconies
    BY DEF IInv, TypeOK
  <2>2. QED
    BY <2>1 DEF BalconyStep, WaitFull, IsQueueEmpty, Decide, QueueFront, QueueFrontFails,
       QueuePop, PostEmpty, Serve, FreeRequest
<1>4. Put' = Put
  BY <1>1, <1>2 DEF Put, NotPut
<1>5. QED
  BY <1>1, <1>2, <1>3, <1>4

\* The list stays a chain, and the nodes in use are those of the list and of main.
LEMMA MainMemoryKept ==
    ASSUME IInv, MainStep
    PROVE  ListIsChain' /\ Linking' /\ NodesInUse'
<1>0. /\ TypeOK /\ Linking /\ NodesInUse /\ ListKnown /\ ListIsChain
      /\ DOMAIN pc = Balconies \cup {Main}
  BY ListFacts DEF IInv, TypeOK
<1>1. CASE PushNew /\ front = NULL
  <2>1. pc[Main] # "walk" /\ pc'[Main] # "walk"
    BY <1>0, <1>1 DEF PushNew, Move
  <2>2. request \in Requests
    BY <1>1 DEF IInv, MainLocals, PushNew, Move, Unlinked
  <2>3. new_queue_node(request) # Free
    BY <2>2, CellsAreMany DEF new_queue_node, Free
  <2>4. QED
    BY <1>0, <1>1, <2>1, <2>3, PushNewFirst DEF Linking, NodesInUse
<1>2. CASE PushNew /\ front # NULL
  <2>1. /\ pc[Main] # "walk" /\ pc'[Main] = "walk" /\ request' = request
    BY <1>0, <1>2 DEF PushNew, Move
  <2>2. request \in Requests
    BY <1>2 DEF IInv, MainLocals, PushNew, Move, Unlinked
  <2>3. new_queue_node(request) # Free
    BY <2>2, CellsAreMany DEF new_queue_node, Free
  <2>4. PICK c : c = new_node'
    OBVIOUS
  <2>5. /\ List' = List /\ ListIsChain' /\ iter' \in ToSet(List) /\ c \in Cells \ ToSet(List)
        /\ node[c] = Free /\ node'[c] = new_queue_node(request)
        /\ \A d \in Cells \ {c} : node'[d] = node[d]
    BY <1>2, <2>4, PushNewBehind
  <2>6. Linking'
    BY <2>1, <2>4, <2>5 DEF Linking, new_queue_node
  <2>7. {d \in Cells : node[d] # Free} = ToSet(List)
    BY <1>0, <2>1 DEF NodesInUse
  <2>8. {d \in Cells : node'[d] # Free} = ToSet(List) \cup {c}
    BY <2>3, <2>5, <2>7
  <2>9. NodesInUse'
    BY <2>1, <2>4, <2>5, <2>8 DEF NodesInUse
  <2>10. QED
    BY <2>5, <2>6, <2>9
<1>3. CASE PushLink
  <2>1. pc[Main] = "walk" /\ pc'[Main] # "walk"
    BY <1>0, <1>3 DEF PushLink, Move
  <2>2. /\ ListIsChain' /\ ToSet(List') = ToSet(List) \cup {new_node}
        /\ \A c \in Cells : node'[c] # Free <=> node[c] # Free
    BY <1>3, PushLinkAppends
  <2>3. QED
    BY <1>0, <2>1, <2>2 DEF Linking, NodesInUse
<1>4. CASE ~PushNew /\ ~PushLink
  <2>1. front' = front /\ node' = node
    BY <1>4, MainQuiet
  <2>2. List' = List /\ ListIsChain'
    BY <1>0, <2>1, ListStays
  <2>3. CASE PushWalk
    <3>1. /\ pc[Main] = "walk" /\ pc'[Main] = "walk" /\ iter' = node[iter].next
          /\ node[iter].next # NULL /\ new_node' = new_node /\ request' = request
      BY <1>0, <2>3 DEF PushWalk, Move
    <3>2. iter' \in ToSet(List)
      BY <1>0, <3>1, PointersAreNodes DEF Linking
    <3>3. QED
      BY <1>0, <2>1, <2>2, <3>1, <3>2 DEF Linking, NodesInUse, new_queue_node
  <2>4. CASE ~PushWalk
    <3>1. pc[Main] # "walk" /\ pc'[Main] # "walk"
      BY <1>0, <1>4, <2>4 DEF MainStep, Move, Lock, ReadRequest, ReadEndOfFile, CheckRequest,
         WaitEmpty, MainUnlock, PostFull, PostFinal, Join, DeleteQueue, DelSync
    <3>2. QED
      BY <1>0, <2>1, <2>2, <3>1 DEF Linking, NodesInUse
  <2>5. QED
    BY <2>3, <2>4
<1>5. QED
  BY <1>1, <1>2, <1>3, <1>4

LEMMA BalconyMemoryKept ==
    ASSUME IInv, NEW b \in Balconies, BalconyStep(b)
    PROVE  ListIsChain' /\ Linking' /\ NodesInUse'
<1>0. TypeOK /\ Linking /\ NodesInUse /\ ListIsChain
  BY DEF IInv
<1>1. CASE QueuePop(b)
  <2>1. pc[Main] # "walk"
    <3>1. Inside(b)
      BY <1>1, CellsAreMany DEF QueuePop, Move, Inside
    <3>2. pc[Main] = "walk" => Inside(Main)
      BY DEF Inside
    <3>3. b \in Threads /\ Main \in Threads /\ b # Main
      BY CellsAreMany DEF Threads
    <3>4. QED
      BY <3>1, <3>2, <3>3, Inner
  <2>2. pc'[Main] # "walk"
    BY <2>1, BalconyLeaves
  <2>3. {c \in Cells : node'[c] # Free} = {c \in Cells : node[c] # Free} \ {front}
    BY <1>1, QueuePopTakes
  <2>4. QED
    BY <1>0, <1>1, <2>1, <2>2, <2>3, QueuePopTakes DEF Linking, NodesInUse
<1>2. CASE ~QueuePop(b)
  <2>1. front' = front /\ node' = node
    BY <1>2, BalconyQuiet
  <2>2. List' = List /\ ListIsChain'
    BY <1>0, <2>1, ListStays
  <2>3. QED
    BY <1>0, <2>1, <2>2, BalconyLeaves DEF Linking, NodesInUse, new_queue_node
<1>3. QED
  BY <1>1, <1>2

\* The numbers in the list are those after what was taken, up to what was put.
LEMMA Numbers ==
    ASSUME IInv
    PROVE  /\ Put \in Nat /\ Len(List) \in Nat
           /\ \A c \in ToSet(List) :
                /\ node[c].val \in Requests /\ node[c].val <= Put
                /\ node[c].val > Put - Len(List)
           /\ front # NULL => node[front].val = Put - Len(List) + 1
           /\ \A b \in Balconies : Held(b) => /\ first_request[b] \in Requests
                                              /\ first_request[b] <= Put
                                              /\ pc[b] # "pop" => first_request[b] <= Put - Len(List)
           /\ Len(List) <= Put
<1>1. ListKnown /\ Put \in Nat /\ Len(List) \in Nat
  <2>1. ListKnown
    BY ListFacts DEF IInv
  <2>2. QED
    BY <2>1, PutType DEF ListKnown
<1>2. \A i \in 1 .. Len(List) : node[List[i]].val = Put - Len(List) + i
  BY DEF IInv, Waiting
<1>3. ASSUME NEW c \in ToSet(List)
      PROVE  /\ node[c].val \in Requests /\ node[c].val <= Put
             /\ node[c].val > Put - Len(List)
  <2>1. PICK i \in 1 .. Len(List) : c = List[i]
    BY <1>1 DEF ListKnown
  <2>2. node[c] \in [val : Requests, next : Pointers]
    BY PointersAreNodes
  <2>3. node[c].val = Put - Len(List) + i
    BY <1>2, <2>1
  <2>4. QED
    BY <1>1, <2>2, <2>3
<1>4. front # NULL => node[front].val = Put - Len(List) + 1
  <2>1. front # NULL => Len(List) # 0 /\ front = List[1]
    BY <1>1 DEF ListKnown
  <2>2. front # NULL => 1 \in 1 .. Len(List)
    BY <1>1, <2>1
  <2>3. QED
    BY <1>2, <2>1, <2>2
<1>5. ASSUME NEW b \in Balconies, Held(b)
      PROVE  /\ first_request[b] \in Requests /\ first_request[b] <= Put
             /\ pc[b] # "pop" => first_request[b] <= Put - Len(List)
  <2>1. first_request[b] \in Requests \cup {NoRequest} /\ first_request[b] # NoRequest
    BY <1>5 DEF IInv, TypeOK, Hands
  <2>2. pc[b] # "pop" => first_request[b] <= Put - Len(List)
    BY <1>5 DEF IInv, Hands
  <2>3. pc[b] = "pop" => front # NULL /\ first_request[b] = node[front].val
    BY CellsAreMany DEF IInv, Hands
  <2>4. pc[b] = "pop" => first_request[b] <= Put
    BY <1>3, <2>3, PointersAreNodes
  <2>5. first_request[b] \in Int
    BY <2>1 DEF Requests, NoRequest
  <2>6. QED
    BY <1>1, <2>1, <2>2, <2>4, <2>5
<1>6. Len(List) <= Put
  <2>1. CASE Len(List) = 0
    BY <1>1, <2>1
  <2>2. CASE Len(List) # 0
    <3>1. front # NULL
      BY <1>1, <2>2 DEF ListKnown
    <3>2. node[front].val \in Requests /\ node[front].val = Put - Len(List) + 1
      BY <1>3, <1>4, <3>1, PointersAreNodes
    <3>3. QED
      BY <1>1, <3>2 DEF Requests
  <2>3. QED
    BY <2>1, <2>2
<1>7. QED
  BY <1>1, <1>3, <1>4, <1>5, <1>6

\* The list holds the last requests that were put, in their order.
LEMMA MainWaitingKept ==
    ASSUME IInv, MainStep
    PROVE  Waiting'
<1>0. /\ ListKnown /\ Waiting /\ ListIsChain /\ Put \in Nat /\ Len(List) \in Nat
  BY ListFacts, Numbers DEF IInv
<1>1. CASE PushNew /\ front = NULL
  <2>1. Put' = Put + 1 /\ request = Put + 1
    BY <1>1, MainPut, PutType DEF Puts, PushNew, Move, Unlinked
  <2>2. PICK c \in Cells : /\ node'[c] = new_queue_node(request)
                           /\ List' = <<c>> /\ Len(List') = 1
    BY <1>1, PushNewFirst
  <2>3. List'[1] = c /\ node'[c].val = Put + 1
    BY <2>1, <2>2 DEF new_queue_node
  <2>4. QED
    BY <1>0, <2>1, <2>2, <2>3 DEF Waiting
<1>2. CASE PushNew /\ front # NULL
  <2>1. Put' = Put
    BY <1>2, MainPut DEF Puts, PushNew, PushLink, Move
  <2>2. List' = List /\ \A d \in Cells \ {new_node'} : node'[d] = node[d]
    BY <1>2, PushNewBehind
  <2>3. \A i \in 1 .. Len(List) : List[i] \in Cells \ {new_node'}
    BY <1>0, <1>2, PushNewBehind DEF ListKnown
  <2>4. QED
    BY <1>0, <2>1, <2>2, <2>3 DEF Waiting
<1>3. CASE PushLink
  <2>1. Put' = Put + 1 /\ request = Put + 1
    BY <1>3, MainPut, PutType DEF Puts, PushLink, Move, Unlinked
  <2>2. /\ List' = Append(List, new_node) /\ Len(List') = Len(List) + 1
        /\ new_node \in Cells
        /\ \A c \in Cells : node'[c].val = node[c].val
        /\ node[new_node].val = Put + 1
    BY <1>3, <2>1, PushLinkAppends DEF new_queue_node
  <2>3. /\ List'[Len(List) + 1] = new_node
        /\ \A i \in 1 .. Len(List) : List'[i] = List[i] /\ List[i] \in Cells
    <3>1. PICK s : s = List
      OBVIOUS
    <3>2. s \in Seq(Cells)
      BY <1>0, <3>1 DEF ListKnown
    <3>3. /\ Append(s, new_node)[Len(s) + 1] = new_node
          /\ \A i \in 1 .. Len(s) : Append(s, new_node)[i] = s[i]
      BY <2>2, <3>2, AppendProperties
    <3>4. QED
      BY <1>0, <2>2, <3>1, <3>3 DEF ListKnown
  <2>4. ASSUME NEW i \in 1 .. Len(List) + 1
        PROVE  node'[List'[i]].val = Put + 1 - (Len(List) + 1) + i
    <3>1. CASE i = Len(List) + 1
      BY <1>0, <2>2, <2>3, <3>1
    <3>2. CASE i \in 1 .. Len(List)
      <4>1. node'[List'[i]].val = Put - Len(List) + i
        BY <1>0, <2>2, <2>3, <3>2 DEF Waiting
      <4>2. QED
        BY <1>0, <4>1
    <3>3. QED
      BY <1>0, <3>1, <3>2
  <2>5. SUFFICES ASSUME NEW i \in 1 .. Len(List')
                 PROVE  node'[List'[i]].val = Put' - Len(List') + i
    BY DEF Waiting
  <2>6. i \in 1 .. Len(List) + 1
    BY <2>2
  <2>7. node'[List'[i]].val = Put + 1 - (Len(List) + 1) + i
    BY <2>4, <2>6
  <2>8. Put' - Len(List') + i = Put + 1 - (Len(List) + 1) + i
    BY <1>0, <2>1, <2>2, <2>6
  <2>9. QED
    BY <2>7, <2>8
<1>4. CASE ~PushNew /\ ~PushLink
  <2>1. front' = front /\ node' = node /\ Put' = Put
    BY <1>4, MainQuiet, MainPut DEF Puts
  <2>2. List' = List
    BY <1>0, <2>1, ListStays
  <2>3. QED
    BY <1>0, <2>1, <2>2 DEF Waiting
<1>5. QED
  BY <1>1, <1>2, <1>3, <1>4

LEMMA BalconyWaitingKept ==
    ASSUME IInv, NEW b \in Balconies, BalconyStep(b)
    PROVE  Waiting'
<1>0. /\ ListKnown /\ Waiting /\ ListIsChain /\ Put \in Nat /\ Len(List) \in Nat
      /\ Put' = Put
  BY ListFacts, Numbers, BalconyLeaves DEF IInv
<1>1. CASE QueuePop(b)
  <2>1. /\ front = List[1] /\ Len(List) # 0 /\ Len(List') = Len(List) - 1
        /\ \A i \in 1 .. Len(List) - 1 : List'[i] = List[i + 1]
        /\ \A c \in Cells \ {front} : node'[c] = node[c]
    BY <1>1, QueuePopTakes
  <2>2. ASSUME NEW i \in 1 .. Len(List) - 1
        PROVE  node'[List'[i]].val = Put - (Len(List) - 1) + i
    <3>1. i + 1 \in 1 .. Len(List) /\ 1 \in 1 .. Len(List) /\ i + 1 # 1
      BY <1>0
    <3>2. List[i + 1] \in Cells /\ List[i + 1] # front
      BY <1>0, <2>1, <3>1 DEF ListKnown
    <3>3. node'[List'[i]].val = node[List[i + 1]].val
      BY <2>1, <3>2
    <3>4. node[List[i + 1]].val = Put - Len(List) + (i + 1)
      BY <1>0, <3>1 DEF Waiting
    <3>5. QED
      BY <1>0, <3>3, <3>4
  <2>3. QED
    BY <1>0, <2>1, <2>2 DEF Waiting
<1>2. CASE ~QueuePop(b)
  <2>1. front' = front /\ node' = node
    BY <1>2, BalconyQuiet
  <2>2. List' = List
    BY <1>0, <2>1, ListStays
  <2>3. QED
    BY <1>0, <2>1, <2>2 DEF Waiting
<1>3. QED
  BY <1>1, <1>2

\* No other thread is at the queue while a balcony pops.
LEMMA AloneAtPop ==
    ASSUME IInv, NEW b \in Balconies, pc[b] = "pop"
    PROVE  /\ ~PushNew /\ ~PushLink
           /\ \A c \in Balconies \ {b} : pc[c] # "pop" /\ pc[c] # "take"
<1>1. Inside(b) /\ b \in Threads /\ b # Main /\ Main \in Threads
  BY CellsAreMany DEF Inside, Threads
<1>2. ~Inside(Main)
  BY <1>1, Inner
<1>3. \A c \in Balconies \ {b} : ~Inside(c)
  BY <1>1, Inner DEF Threads
<1>4. QED
  BY <1>2, <1>3, CellsAreMany DEF Inside, PushNew, PushLink, Move

\* Main leaves alone what the balconies hold.
LEMMA MainLeaves ==
    ASSUME IInv, MainStep
    PROVE  /\ UNCHANGED <<first_request, queue_empty>>
           /\ \A b \in Balconies : pc'[b] = pc[b]
<1>1. DOMAIN pc = Balconies \cup {Main} /\ Main \notin Balconies
  BY CellsAreMany DEF IInv, TypeOK
<1>2. QED
  BY <1>1 DEF MainStep, balconyVars, Move, Lock, ReadRequest, ReadEndOfFile, CheckRequest,
     WaitEmpty, PushNew, PushWalk, PushLink, MainUnlock, PostFull, PostFinal, Join,
     DeleteQueue, DelSync

\* What is in the queue or was put in it, less what waits, is what was taken.
LEMMA MainTaken ==
    ASSUME IInv, MainStep
    PROVE  Put' - Len(List') = Put - Len(List) /\ Len(List') \in Nat
<1>0. ListIsChain /\ Put \in Nat /\ Len(List) \in Nat
  BY Numbers DEF IInv
<1>1. CASE PushNew /\ front = NULL
  <2>1. Puts
    BY <1>1 DEF Puts
  <2>2. Len(List) = 0 /\ Len(List') = 1
    BY <1>1, PushNewFirst
  <2>3. Put' = Put + 1
    BY <2>1, MainPut
  <2>4. QED
    BY <1>0, <2>2, <2>3
<1>2. CASE PushNew /\ front # NULL
  <2>1. ~Puts
    BY <1>2 DEF Puts, PushNew, PushLink, Move
  <2>2. QED
    BY <1>0, <1>2, <2>1, MainPut, PushNewBehind
<1>3. CASE PushLink
  <2>1. Puts
    BY <1>3 DEF Puts
  <2>2. QED
    BY <1>0, <1>3, <2>1, MainPut, PushLinkAppends
<1>4. CASE ~PushNew /\ ~PushLink
  <2>1. ~Puts
    BY <1>4 DEF Puts
  <2>2. List' = List
    BY <1>0, <1>4, MainQuiet, ListStays
  <2>3. QED
    BY <1>0, <2>1, <2>2, MainPut
<1>5. QED
  BY <1>1, <1>2, <1>3, <1>4

\* No two balconies hold one request, and what they hold was put before what waits.
LEMMA MainHandsKept ==
    ASSUME IInv, MainStep
    PROVE  Hands'
<1>1. Hands
  BY DEF IInv
<1>2. /\ first_request' = first_request
      /\ \A b \in Balconies : pc'[b] = pc[b]
      /\ \A b \in Balconies : Held(b)' <=> Held(b)
  BY MainLeaves DEF Held
<1>3. Put' - Len(List') = Put - Len(List)
  BY MainTaken
<1>4. ASSUME NEW b \in Balconies, pc[b] = "pop"
      PROVE  front' \in Cells /\ first_request[b] = node'[front'].val
  BY <1>1, <1>4, AloneAtPop, MainQuiet DEF Hands
<1>5. QED
  BY <1>1, <1>2, <1>3, <1>4 DEF Hands

LEMMA BalconyHandsKept ==
    ASSUME IInv, NEW b \in Balconies, BalconyStep(b)
    PROVE  Hands'
<1> USE DEF Move, Lock
<1>0. /\ Hands /\ ListIsChain /\ ListKnown
      /\ DOMAIN pc = Balconies \cup {Main} /\ DOMAIN first_request = Balconies
      /\ Put \in Nat /\ Len(List) \in Nat
      /\ Put' = Put
      /\ \A c \in Balconies \ {b} : pc'[c] = pc[c] /\ first_request'[c] = first_request[c]
  BY ListFacts, Numbers, BalconyLeaves DEF IInv, TypeOK
<1>1. \A c \in Balconies \ {b} : Held(c)' <=> Held(c)
  BY <1>0 DEF Held
<1>2. CASE QueuePop(b)
  <2>1. /\ pc[b] = "pop" /\ pc'[b] = "post_empty" /\ first_request'[b] = first_request[b]
        /\ Held(b) /\ Held(b)'
    BY <1>0, <1>2 DEF QueuePop, balconyVars, Held, Holding
  <2>2. Len(List') = Len(List) - 1 /\ front # NULL
    BY <1>0, <1>2, QueuePopTakes, CellsAreMany DEF ListKnown
  <2>3. first_request[b] = Put - Len(List')
    <3>1. first_request[b] = node[front].val
      BY <1>0, <2>1 DEF Hands
    <3>2. node[front].val = Put - Len(List) + 1
      BY <2>2, Numbers
    <3>3. QED
      BY <1>0, <2>2, <3>1, <3>2
  <2>4. \A c \in Balconies \ {b} : pc'[c] # "pop"
    BY <1>0, <2>1, AloneAtPop
  <2>5. ASSUME NEW c \in Balconies \ {b}, Held(c), pc[c] # "pop"
        PROVE  first_request[c] <= Put - Len(List')
    <3>1. first_request[c] <= Put - Len(List) /\ first_request[c] \in Requests
      BY <2>5, Numbers
    <3>2. first_request[c] \in Int
      BY <3>1 DEF Requests
    <3>3. QED
      BY <1>0, <2>2, <3>1, <3>2
  <2>6. /\ \A c \in Balconies : first_request'[c] # NoRequest <=> Held(c)'
        /\ \A c, d \in Balconies : c # d /\ Held(c)' /\ Held(d)'
              => first_request'[c] # first_request'[d]
    BY <1>0, <1>1, <2>1 DEF Hands
  <2>7. \A c \in Balconies : Held(c)' /\ pc'[c] # "pop" => first_request'[c] <= Put' - Len(List')
    <3>1. Put - Len(List') \in Int
      BY <1>0, <2>2
    <3>2. QED
      BY <1>0, <1>1, <2>1, <2>3, <2>5, <3>1
  <2>8. \A c \in Balconies : pc'[c] # "pop"
    BY <2>1, <2>4
  <2>9. QED
    BY <2>6, <2>7, <2>8 DEF Hands
<1>3. CASE ~QueuePop(b)
  <2>1. front' = front /\ node' = node /\ List' = List
    BY <1>0, <1>3, BalconyQuiet, ListStays
  <2>2. CASE QueueFront(b)
    <3>1. /\ pc[b] = "take" /\ pc'[b] = "pop" /\ first_request'[b] = node[front].val
          /\ ~Held(b) /\ Held(b)' /\ front # NULL
      BY <1>0, <2>2 DEF QueueFront, Held, Holding
    <3>2. /\ node[front].val = Put - Len(List) + 1 /\ node[front].val \in Requests
          /\ front \in Cells
      BY <3>1, Numbers, PointersAreNodes
    <3>3. \A c \in Balconies \ {b} : pc[c] # "pop"
      BY <3>1, AloneAtPop
    <3>4. ASSUME NEW c \in Balconies \ {b}, Held(c) PROVE first_request[c] # node[front].val
      <4>1. first_request[c] <= Put - Len(List) /\ first_request[c] \in Requests
        BY <3>3, <3>4, Numbers
      <4>2. QED
        BY <1>0, <3>2, <4>1 DEF Requests
    <3>5. \A c \in Balconies : first_request'[c] # NoRequest <=> Held(c)'
      BY <1>0, <1>1, <3>1, <3>2, CellsAreMany DEF Hands
    <3>6. \A c, d \in Balconies : c # d /\ Held(c)' /\ Held(d)'
              => first_request'[c] # first_request'[d]
      BY <1>0, <1>1, <3>1, <3>4 DEF Hands
    <3>7. \A c \in Balconies : Held(c)' /\ pc'[c] # "pop"
              => first_request'[c] <= Put' - Len(List')
      BY <1>0, <1>1, <2>1, <3>1 DEF Hands
    <3>8. \A c \in Balconies : pc'[c] = "pop"
              => front' \in Cells /\ first_request'[c] = node'[front'].val
      BY <1>0, <2>1, <3>1, <3>2, <3>3
    <3>9. QED
      BY <3>5, <3>6, <3>7, <3>8 DEF Hands
  <2>3. CASE FreeRequest(b)
    <3>1. /\ ~Held(b)' /\ pc'[b] # "pop" /\ first_request'[b] = NoRequest
      BY <1>0, <2>3 DEF FreeRequest, Held, Holding
    <3>2. QED
      BY <1>0, <1>1, <2>1, <3>1 DEF Hands
  <2>4. CASE ~QueueFront(b) /\ ~FreeRequest(b)
    <3>1. first_request' = first_request
      BY <1>3, <2>4 DEF BalconyStep, balconyVars, WaitFull, IsQueueEmpty, Decide,
         QueueFrontFails, PostEmpty, Serve
    <3>2. /\ Held(b)' <=> Held(b)
          /\ pc[b] # "pop" /\ pc'[b] # "pop"
      BY <1>0, <1>3, <2>4 DEF BalconyStep, Held, Holding, WaitFull, IsQueueEmpty, Decide,
         QueueFrontFails, PostEmpty, Serve
    <3>3. QED
      BY <1>0, <1>1, <2>1, <3>1, <3>2 DEF Hands
  <2>5. QED
    BY <2>2, <2>3, <2>4
<1>4. QED
  BY <1>2, <1>3

\* The requests that the threads hold.
InList == {node[c].val : c \in ToSet(List)}
AtMain == IF pc[Main] \in Unlinked THEN {request} ELSE {}
InHands == {first_request[b] : b \in {a \in Balconies : Held(a)}}

\* Every allocated request is in the list or in the hands of one thread.
LEMMA MainAllocationKept ==
    ASSUME IInv, MainStep
    PROVE  Allocation'
<1> USE DEF Move, Lock
<1>0. /\ TypeOK /\ allocated = InList \cup AtMain \cup InHands
      /\ DOMAIN pc = Balconies \cup {Main} /\ ListIsChain /\ ListKnown
      /\ InHands' = InHands
  <2>1. TypeOK /\ ListIsChain /\ ListKnown /\ allocated = InList \cup AtMain \cup InHands
    BY ListFacts DEF IInv, Allocation, InList, AtMain, InHands
  <2>2. InHands' = InHands
    BY MainLeaves DEF InHands, Held
  <2>3. QED
    BY <2>1, <2>2 DEF TypeOK
<1>1. SUFFICES allocated' = InList' \cup AtMain' \cup InHands
  BY <1>0 DEF Allocation, InList, AtMain, InHands
<1>2. CASE PushNew
  <2>1. /\ allocated' = allocated /\ request' = request /\ pc[Main] \in Unlinked
        /\ pc'[Main] = IF front = NULL THEN "unlock" ELSE "walk"
    BY <1>0, <1>2 DEF PushNew, Unlinked
  <2>2. CASE front = NULL
    <3>1. PICK c \in Cells : node'[c] = new_queue_node(request) /\ ToSet(List') = {c}
      BY <1>2, <2>2, PushNewFirst
    <3>2. InList = {} /\ InList' = {request}
      BY <1>2, <2>2, <3>1, PushNewFirst DEF InList, new_queue_node
    <3>3. AtMain = {request} /\ AtMain' = {}
      BY <2>1, <2>2 DEF AtMain, Unlinked
    <3>4. QED
      BY <1>0, <2>1, <3>2, <3>3
  <2>3. CASE front # NULL
    <3>1. AtMain' = AtMain
      BY <2>1, <2>3 DEF AtMain, Unlinked
    <3>2. \A c \in ToSet(List) : c \in Cells /\ c # new_node'
      BY <1>2, <2>3, PushNewBehind, PointersAreNodes
    <3>3. List' = List /\ \A c \in ToSet(List) : node'[c] = node[c]
      BY <1>2, <2>3, <3>2, PushNewBehind
    <3>4. InList' = InList
      BY <3>3 DEF InList
    <3>5. QED
      BY <1>0, <2>1, <3>1, <3>4
  <2>4. QED
    BY <2>2, <2>3
<1>3. CASE PushLink
  <2>1. /\ allocated' = allocated /\ pc[Main] \in Unlinked /\ pc'[Main] \notin Unlinked
    BY <1>0, <1>3 DEF PushLink, Unlinked, memVars
  <2>2. /\ ToSet(List') = ToSet(List) \cup {new_node} /\ new_node \in Cells
        /\ \A c \in Cells : node'[c].val = node[c].val
        /\ node[new_node].val = request
    BY <1>3, PushLinkAppends DEF new_queue_node
  <2>3. \A c \in ToSet(List) : c \in Cells
    BY PointersAreNodes
  <2>4. InList' = InList \cup {request}
    BY <2>2, <2>3 DEF InList
  <2>5. QED
    BY <1>0, <2>1, <2>4 DEF AtMain
<1>4. CASE ~PushNew /\ ~PushLink
  <2>1. node' = node /\ List' = List
    BY <1>0, <1>4, MainQuiet, ListStays
  <2>2. InList' = InList
    BY <2>1 DEF InList
  <2>3. CASE ReadRequest
    <3>1. /\ allocated' = allocated \cup {request'} /\ pc'[Main] \in Unlinked
          /\ pc[Main] \notin Unlinked
      BY <1>0, <2>3 DEF ReadRequest, Unlinked
    <3>2. QED
      BY <1>0, <2>2, <3>1 DEF AtMain
  <2>4. CASE CheckRequest /\ balcony_open
    <3>1. /\ allocated' = allocated /\ pc'[Main] \in Unlinked /\ request' = request
          /\ pc[Main] \in Unlinked
      BY <1>0, <2>4 DEF CheckRequest, Unlinked
    <3>2. QED
      BY <1>0, <2>2, <3>1 DEF AtMain
  <2>5. CASE CheckRequest /\ ~balcony_open
    <3>1. /\ allocated' = allocated \ {request} /\ pc'[Main] \notin Unlinked
          /\ pc[Main] \in Unlinked
      BY <1>0, <2>5 DEF CheckRequest, Unlinked
    <3>2. request = Put + 1 /\ Put \in Nat
      BY <3>1, PutType
    <3>3. request \notin InList
      BY <3>2, Numbers DEF InList, Requests
    <3>4. request \notin InHands
      BY <3>2, Numbers DEF InHands, Requests
    <3>5. QED
      BY <1>0, <2>2, <3>1, <3>3, <3>4 DEF AtMain
  <2>6. CASE ~ReadRequest /\ ~CheckRequest
    <3>1. /\ allocated' = allocated /\ request' = request
          /\ pc'[Main] \in Unlinked <=> pc[Main] \in Unlinked
      BY <1>0, <1>4, <2>6 DEF MainStep, memVars, mainVars, Unlinked, ReadEndOfFile, WaitEmpty,
         PushWalk, MainUnlock, PostFull, PostFinal, Join, DeleteQueue, DelSync
    <3>2. QED
      BY <1>0, <2>2, <3>1 DEF AtMain
  <2>7. QED
    BY <2>3, <2>4, <2>5, <2>6
<1>5. QED
  BY <1>2, <1>3, <1>4

LEMMA BalconyAllocationKept ==
    ASSUME IInv, NEW b \in Balconies, BalconyStep(b)
    PROVE  Allocation'
<1> USE DEF Move, Lock
<1>0. /\ allocated = InList \cup AtMain \cup InHands
      /\ DOMAIN pc = Balconies \cup {Main} /\ DOMAIN first_request = Balconies
      /\ ListIsChain /\ ListKnown /\ Hands
      /\ AtMain' = AtMain
      /\ \A c \in Balconies \ {b} : pc'[c] = pc[c] /\ first_request'[c] = first_request[c]
  <2>1. ListIsChain /\ ListKnown /\ allocated = InList \cup AtMain \cup InHands /\ Hands
    BY ListFacts DEF IInv, Allocation, InList, AtMain, InHands
  <2>2. AtMain' = AtMain
    BY BalconyLeaves DEF AtMain
  <2>3. QED
    BY <2>1, <2>2, BalconyLeaves DEF IInv, TypeOK
<1>1. SUFFICES allocated' = InList' \cup AtMain \cup InHands'
  BY <1>0 DEF Allocation, InList, AtMain, InHands
<1>2. \A c \in Balconies \ {b} : Held(c)' <=> Held(c)
  BY <1>0 DEF Held
<1>3. CASE QueuePop(b)
  <2>1. /\ allocated' = allocated /\ first_request' = first_request
        /\ pc[b] = "pop" /\ pc'[b] = "post_empty"
    BY <1>0, <1>3 DEF QueuePop, balconyVars
  <2>2. Held(b) /\ Held(b)' /\ first_request[b] = node[front].val
    BY <1>0, <2>1 DEF Held, Holding, Hands
  <2>3. InHands' = InHands /\ node[front].val \in InHands
    BY <1>2, <2>1, <2>2 DEF InHands
  <2>4. /\ ToSet(List') = ToSet(List) \ {front} /\ front \in ToSet(List)
        /\ \A c \in ToSet(List) \ {front} : node'[c] = node[c]
    BY <1>3, QueuePopTakes, PointersAreNodes
  <2>5. InList = InList' \cup {node[front].val}
    BY <2>4 DEF InList
  <2>6. QED
    BY <1>0, <2>1, <2>3, <2>5
<1>4. CASE ~QueuePop(b)
  <2>1. node' = node /\ List' = List
    BY <1>0, <1>4, BalconyQuiet, ListStays
  <2>2. InList' = InList
    BY <2>1 DEF InList
  <2>3. CASE QueueFront(b)
    <3>1. /\ allocated' = allocated /\ first_request'[b] = node[front].val
          /\ ~Held(b) /\ Held(b)' /\ front # NULL
      BY <1>0, <2>3 DEF QueueFront, Held, Holding, memVars
    <3>2. InHands' = InHands \cup {node[front].val}
      BY <1>0, <1>2, <3>1 DEF InHands
    <3>3. node[front].val \in InList
      BY <3>1, PointersAreNodes DEF InList
    <3>4. QED
      BY <1>0, <2>2, <3>1, <3>2, <3>3
  <2>4. CASE FreeRequest(b)
    <3>1. /\ allocated' = allocated \ {first_request[b]} /\ pc[b] = "free"
          /\ Held(b) /\ ~Held(b)'
      BY <1>0, <2>4 DEF FreeRequest, Held, Holding
    <3>2. /\ first_request[b] \in Requests /\ first_request[b] <= Put - Len(List)
          /\ first_request[b] <= Put /\ Put \in Nat /\ Len(List) \in Nat
      BY <3>1, Numbers
    <3>3. first_request[b] \notin InList
      BY <3>2, Numbers DEF InList, Requests
    <3>4. first_request[b] \notin AtMain
      BY <3>2, PutType DEF AtMain, Requests
    <3>5. InHands' = InHands \ {first_request[b]}
      <4>1. \A c \in Balconies \ {b} : Held(c) => first_request[c] # first_request[b]
        BY <1>0, <3>1 DEF Hands
      <4>2. QED
        BY <1>0, <1>2, <3>1, <4>1 DEF InHands
    <3>6. QED
      BY <1>0, <2>2, <3>1, <3>3, <3>4, <3>5
  <2>5. CASE ~QueueFront(b) /\ ~FreeRequest(b)
    <3>1. /\ allocated' = allocated /\ first_request' = first_request
          /\ Held(b)' <=> Held(b)
      BY <1>0, <1>4, <2>5 DEF BalconyStep, memVars, balconyVars, Held, Holding, WaitFull,
         IsQueueEmpty, Decide, QueueFrontFails, PostEmpty, Serve
    <3>2. InHands' = InHands
      BY <1>2, <3>1 DEF InHands
    <3>3. QED
      BY <1>0, <2>2, <3>1, <3>2
  <2>6. QED
    BY <2>3, <2>4, <2>5
<1>5. QED
  BY <1>3, <1>4

\* The semaphores and the list, through the main thread.
LEMMA MainCountsKept ==
    ASSUME IInv, MainStep
    PROVE  FullCounts' /\ EmptyCounts'
<1> USE DEF Move, Lock
<1>0. /\ FullCounts /\ EmptyCounts /\ DOMAIN pc = Balconies \cup {Main}
      /\ Put \in Nat /\ Len(List) \in Nat /\ Len(List') \in Nat
      /\ full \in Nat /\ empty \in Nat /\ posted \in Nat /\ n_threads \in Nat
      /\ ~InService => full <= n_threads + posted
      /\ InService => full <= n_threads /\ posted = 0
  BY Numbers, MainTaken, Bounds, CellsAreMany DEF IInv, TypeOK, Phases
<1>1. /\ Cardinality(InLine) \in Nat /\ Cardinality(InLine') = Cardinality(InLine)
      /\ Cardinality(Leaving) \in Nat /\ Cardinality(Leaving') = Cardinality(Leaving)
  <2>1. InLine' = InLine /\ Leaving' = Leaving
    BY MainLeaves DEF InLine, Leaving
  <2>2. QED
    BY <2>1, Counts
<1>2. CASE PushNew \/ PushLink
  <2>1. /\ full' = full /\ empty' = empty /\ InService /\ InService'
        /\ pc[Main] \in {"push", "walk"}
        /\ pc'[Main] = IF Puts THEN "unlock" ELSE "walk"
    BY <1>0, <1>2 DEF PushNew, PushLink, syncVars, InService, Puts
  <2>2. Len(List') = IF Puts THEN Len(List) + 1 ELSE Len(List)
    <3>1. (Puts => Put' = Put + 1) /\ (~Puts => Put' = Put)
      BY MainPut
    <3>2. Put' - Len(List') = Put - Len(List)
      BY MainTaken
    <3>3. QED
      BY <1>0, <3>1, <3>2
  <2>3. ~Deleting
    BY <2>1 DEF Deleting
  <2>4. FullCounts'
    BY <1>0, <1>1, <2>1, <2>2 DEF FullCounts
  <2>5. EmptyCounts'
    BY <1>0, <1>1, <2>1, <2>2, <2>3 DEF EmptyCounts
  <2>6. QED
    BY <2>4, <2>5
<1>3. CASE ~PushNew /\ ~PushLink
  <2>1. Len(List') = Len(List)
    <3>1. List' = List
      BY <1>3, MainQuiet, ListStays DEF IInv
    <3>2. QED
      BY <3>1
  <2>2. CASE WaitEmpty
    BY <1>0, <1>1, <2>1, <2>2 DEF WaitEmpty, InService, Deleting, FullCounts, EmptyCounts
  <2>3. CASE PostFull
    BY <1>0, <1>1, <2>1, <2>3 DEF PostFull, InService, Deleting, FullCounts, EmptyCounts
  <2>4. CASE PostFinal
    BY <1>0, <1>1, <2>1, <2>4 DEF PostFinal, InService, Deleting, FullCounts, EmptyCounts
  <2>5. CASE DelSync
    BY <1>0, <1>1, <2>1, <2>5 DEF DelSync, InService, Deleting, FullCounts, EmptyCounts,
       mainVars
  <2>6. CASE ~WaitEmpty /\ ~PostFull /\ ~PostFinal /\ ~DelSync
    <3>1. full' = full /\ empty' = empty /\ posted' = posted
      BY <1>3, <2>6 DEF MainStep, syncVars, mainVars, ReadRequest, ReadEndOfFile, CheckRequest,
         PushWalk, MainUnlock, Join, DeleteQueue
    <3>2. /\ Deleting => Deleting'
          /\ ~InService => ~InService'
          /\ InService' => (pc[Main] \in {"unlock", "post_full"} <=>
                            pc'[Main] \in {"unlock", "post_full"})
          /\ ~Deleting' => (pc[Main] \in {"lock", "push", "walk"} <=>
                            pc'[Main] \in {"lock", "push", "walk"})
      BY <1>0, <1>3, <2>6 DEF MainStep, InService, Deleting, ReadRequest, ReadEndOfFile,
         CheckRequest, PushWalk, MainUnlock, Join, DeleteQueue
    <3>3. FullCounts'
      BY <1>0, <1>1, <2>1, <3>1, <3>2 DEF FullCounts
    <3>4. EmptyCounts'
      BY <1>0, <1>1, <2>1, <3>1, <3>2 DEF EmptyCounts
    <3>5. QED
      BY <3>3, <3>4
  <2>7. QED
    BY <2>2, <2>3, <2>4, <2>5, <2>6
<1>4. QED
  BY <1>2, <1>3

\* How many balconies are between their semaphore and the queue.
LEMMA BalconyInLine ==
    ASSUME IInv, NEW b \in Balconies, BalconyStep(b)
    PROVE  /\ WaitFull(b) => Cardinality(InLine') = Cardinality(InLine) + 1
           /\ QueuePop(b) => /\ Cardinality(InLine') = Cardinality(InLine) - 1
                             /\ Cardinality(Leaving') = Cardinality(Leaving) + 1
           /\ PostEmpty(b) => Cardinality(Leaving') = Cardinality(Leaving) - 1
           /\ ~WaitFull(b) /\ ~QueuePop(b) /\ InService
                => Cardinality(InLine') = Cardinality(InLine)
           /\ ~PostEmpty(b) /\ ~QueuePop(b) => Cardinality(Leaving') = Cardinality(Leaving)
<1> USE DEF Move, Lock
<1>0. /\ DOMAIN pc = Balconies \cup {Main}
      /\ \A c \in Balconies \ {b} : pc'[c] = pc[c]
      /\ IsFiniteSet(InLine) /\ IsFiniteSet(Leaving)
      /\ Cardinality(InLine) \in Nat /\ Cardinality(Leaving) \in Nat
  BY BalconyLeaves, Counts DEF IInv, TypeOK
<1>1. CASE WaitFull(b)
  <2>1. InLine' = InLine \cup {b} /\ b \notin InLine /\ Leaving' = Leaving
    BY <1>0, <1>1 DEF WaitFull, InLine, Leaving
  <2>2. ~QueuePop(b) /\ ~PostEmpty(b)
    BY <1>1 DEF WaitFull, QueuePop, PostEmpty
  <2>3. Cardinality(InLine \cup {b}) = Cardinality(InLine) + 1
    BY <1>0, <2>1, FS_AddElement
  <2>4. QED
    BY <1>1, <2>1, <2>2, <2>3
<1>2. CASE QueuePop(b)
  <2>1. /\ InLine' = InLine \ {b} /\ b \in InLine
        /\ Leaving' = Leaving \cup {b} /\ b \notin Leaving
    BY <1>0, <1>2 DEF QueuePop, InLine, Leaving
  <2>2. ~WaitFull(b) /\ ~PostEmpty(b)
    BY <1>2 DEF WaitFull, QueuePop, PostEmpty
  <2>3. Cardinality(InLine \ {b}) = Cardinality(InLine) - 1
    BY <1>0, <2>1, FS_RemoveElement
  <2>4. Cardinality(Leaving \cup {b}) = Cardinality(Leaving) + 1
    BY <1>0, <2>1, FS_AddElement
  <2>5. QED
    BY <1>2, <2>1, <2>2, <2>3, <2>4
<1>3. CASE PostEmpty(b)
  <2>1. InLine' = InLine /\ Leaving' = Leaving \ {b} /\ b \in Leaving
    BY <1>0, <1>3 DEF PostEmpty, InLine, Leaving
  <2>2. ~WaitFull(b) /\ ~QueuePop(b)
    BY <1>3 DEF WaitFull, QueuePop, PostEmpty
  <2>3. Cardinality(Leaving \ {b}) = Cardinality(Leaving) - 1
    BY <1>0, <2>1, FS_RemoveElement
  <2>4. QED
    BY <1>3, <2>1, <2>2, <2>3
<1>4. CASE ~WaitFull(b) /\ ~QueuePop(b) /\ ~PostEmpty(b)
  <2>1. Leaving' = Leaving
    BY <1>0, <1>4 DEF BalconyStep, Leaving, IsQueueEmpty, Decide, QueueFront,
       QueueFrontFails, Serve, FreeRequest
  <2>2. InService => ~(Decide(b) /\ queue_empty[b])
    BY DEF Decide, IInv, Phases, SawEmpty
  <2>3. InService => InLine' = InLine
    BY <1>0, <1>4, <2>2 DEF BalconyStep, InLine, IsQueueEmpty, Decide, QueueFront,
       QueueFrontFails, Serve, FreeRequest
  <2>4. QED
    BY <1>4, <2>1, <2>3
<1>5. QED
  BY <1>1, <1>2, <1>3, <1>4

\* Each semaphore counts what it stands for, whichever balcony waits or posts.
LEMMA BalconyCountsKept ==
    ASSUME IInv, NEW b \in Balconies, BalconyStep(b)
    PROVE  FullCounts' /\ EmptyCounts'
<1> USE DEF Move, Lock
<1>0. /\ FullCounts /\ EmptyCounts
      /\ Len(List) \in Nat /\ full \in Nat /\ empty \in Nat /\ posted \in Nat
      /\ Cardinality(InLine) \in Nat /\ Cardinality(Leaving) \in Nat
      /\ n_threads \in Nat /\ pc'[Main] = pc[Main] /\ posted' = posted
  BY Numbers, BalconyLeaves, Bounds, Counts, CellsAreMany DEF IInv, TypeOK
<1>1. (InService' <=> InService) /\ (Deleting' <=> Deleting)
  BY <1>0 DEF InService, Deleting
<1>2. CASE QueuePop(b)
  <2>1. /\ Len(List') = Len(List) - 1
        /\ Cardinality(InLine') = Cardinality(InLine) - 1
        /\ Cardinality(Leaving') = Cardinality(Leaving) + 1
    BY <1>2, QueuePopTakes, BalconyInLine
  <2>2. full' = full /\ empty' = empty
    BY <1>2 DEF QueuePop
  <2>3. FullCounts'
    BY <1>0, <1>1, <2>1, <2>2 DEF FullCounts
  <2>4. EmptyCounts'
    BY <1>0, <1>1, <2>1, <2>2 DEF EmptyCounts
  <2>5. QED
    BY <2>3, <2>4
<1>3. CASE ~QueuePop(b)
  <2>1. Len(List') = Len(List)
    <3>1. List' = List
      BY <1>3, BalconyQuiet, ListStays DEF IInv
    <3>2. QED
      BY <3>1
  <2>2. CASE WaitFull(b)
    <3>1. full' = full - 1 /\ empty' = empty /\ ~PostEmpty(b)
      BY <2>2 DEF WaitFull, PostEmpty
    <3>2. /\ Cardinality(InLine') = Cardinality(InLine) + 1
          /\ Cardinality(Leaving') = Cardinality(Leaving)
      BY <1>3, <2>2, <3>1, BalconyInLine
    <3>3. FullCounts'
      BY <1>0, <1>1, <2>1, <3>1, <3>2 DEF FullCounts
    <3>4. EmptyCounts'
      BY <1>0, <1>1, <2>1, <3>1, <3>2 DEF EmptyCounts
    <3>5. QED
      BY <3>3, <3>4
  <2>3. CASE PostEmpty(b)
    <3>1. full' = full /\ empty' = empty + 1 /\ ~WaitFull(b)
      BY <2>3 DEF WaitFull, PostEmpty
    <3>2. /\ InService => Cardinality(InLine') = Cardinality(InLine)
          /\ Cardinality(Leaving') = Cardinality(Leaving) - 1
      BY <1>3, <2>3, <3>1, BalconyInLine
    <3>3. FullCounts'
      BY <1>0, <1>1, <2>1, <3>1, <3>2 DEF FullCounts
    <3>4. EmptyCounts'
      BY <1>0, <1>1, <2>1, <3>1, <3>2 DEF EmptyCounts
    <3>5. QED
      BY <3>3, <3>4
  <2>4. CASE ~WaitFull(b) /\ ~PostEmpty(b)
    <3>1. full' = full /\ empty' = empty
      BY <1>3, <2>4 DEF BalconyStep, syncVars, IsQueueEmpty, Decide, QueueFront,
         QueueFrontFails, Serve, FreeRequest
    <3>2. /\ InService => Cardinality(InLine') = Cardinality(InLine)
          /\ Cardinality(Leaving') = Cardinality(Leaving)
      BY <1>3, <2>4, BalconyInLine
    <3>3. FullCounts'
      BY <1>0, <1>1, <2>1, <3>1, <3>2 DEF FullCounts
    <3>4. EmptyCounts'
      BY <1>0, <1>1, <2>1, <3>1, <3>2 DEF EmptyCounts
    <3>5. QED
      BY <3>3, <3>4
  <2>5. QED
    BY <2>2, <2>3, <2>4
<1>4. QED
  BY <1>2, <1>3

-----------------------------------------------------------------------------
(* The invariant.                                                          *)

\* The invariant at the start.
LEMMA InitHolds == Init => IInv
<1> SUFFICES ASSUME Init PROVE IInv
  OBVIOUS
<1> USE DEF Init
<1>1. TypeOK
  <2>1. /\ n_threads \in Nat \ {0} /\ Arrivals \in Nat /\ NULL \notin Cells
        /\ Free \in {Free}
    BY CellsAreMany
  <2>2. node \in [Cells -> [val : Requests, next : Pointers] \cup {Free}]
    OBVIOUS
  <2>3. 0 \in 0 .. Arrivals /\ 0 \in 0 .. n_threads /\ n_threads \in 0 .. n_threads
        /\ 0 \in 0 .. 2 * n_threads
    BY <2>1
  <2>4. QED
    BY <2>2, <2>3 DEF TypeOK, Pointers, Requests, NoRequest
<1>2. pc[Main] = "read" /\ \A b \in Balconies : pc[b] = "wait_full"
  BY CellsAreMany
<1>3. Points /\ Phases /\ MainLocals /\ Linking
  BY <1>2, CellsAreMany DEF Points, MainPoints, BalconyPoints, Phases, InService, Deleting,
     SawEmpty, MainLocals, Unlinked, Linking
<1>4. MutexOwner
  BY <1>2, CellsAreMany DEF MutexOwner, Inside
<1>5. List = <<>> /\ Len(List) = 0 /\ ToSet(List) = {} /\ ListIsChain
  <2>1. <<>> \in Seq(Cells) /\ Len(<<>>) = 0
    OBVIOUS
  <2>2. Chain(<<>>)
    BY <2>1 DEF Chain
  <2>3. List = <<>>
    BY <2>1, <2>2, ListIs
  <2>4. ToSet(<<>>) = {}
    BY DEF ToSet
  <2>5. QED
    BY <2>1, <2>2, <2>3, <2>4 DEF ListIsChain
<1>6. NodesInUse /\ Waiting
  BY <1>2, <1>5 DEF NodesInUse, Waiting
<1>7. \A b \in Balconies : ~Held(b)
  BY <1>2 DEF Held, Holding
<1>8. Hands /\ Allocation
  BY <1>2, <1>5, <1>7 DEF Hands, Allocation, Unlinked, Held, Holding
<1>9. Cardinality(InLine) = 0 /\ Cardinality(Leaving) = 0
  <2>1. InLine = {} /\ Leaving = {}
    BY <1>2 DEF InLine, Leaving
  <2>2. QED
    BY <2>1, FS_EmptySet
<1>10. FullCounts /\ EmptyCounts
  BY <1>2, <1>5, <1>9, CellsAreMany DEF FullCounts, EmptyCounts, InService
<1>11. QED
  BY <1>1, <1>3, <1>4, <1>5, <1>6, <1>8, <1>10 DEF IInv

\* The invariant when nothing changes.
LEMMA StutterHolds ==
    ASSUME IInv, UNCHANGED vars
    PROVE  IInv'
<1> USE DEF vars, memVars, mainVars, balconyVars, syncVars
<1>1. TypeOK' /\ Points' /\ MutexOwner' /\ Phases' /\ MainLocals'
  BY DEF IInv, TypeOK, Points, MutexOwner, Inside, Phases, InService, Deleting, SawEmpty,
     MainLocals
<1>2. List' = List /\ ListIsChain'
  BY ListStays DEF IInv
<1>3. Put' = Put
  BY DEF Put, NotPut
<1>4. Linking' /\ NodesInUse' /\ Waiting'
  BY <1>2, <1>3 DEF IInv, Linking, NodesInUse, Waiting, new_queue_node
<1>5. Hands'
  BY <1>2, <1>3 DEF IInv, Hands, Held
<1>6. Allocation'
  BY <1>2 DEF IInv, Allocation, Held
<1>7. InLine' = InLine /\ Leaving' = Leaving
  BY DEF InLine, Leaving
<1>8. FullCounts' /\ EmptyCounts'
  BY <1>2, <1>7 DEF IInv, FullCounts, EmptyCounts, InService, Deleting
<1>9. QED
  BY <1>1, <1>2, <1>4, <1>5, <1>6, <1>8 DEF IInv

\* The invariant after every step of main or of a balcony.
LEMMA NextHolds ==
    ASSUME IInv, [Next]_vars
    PROVE  IInv'
<1>1. CASE MainStep
  BY <1>1, MainTypes, MainPointsKept, MainMutexKept, MainPhasesKept, MainLocalsKept,
     MainMemoryKept, MainWaitingKept, MainHandsKept, MainAllocationKept, MainCountsKept
     DEF IInv
<1>2. ASSUME NEW b \in Balconies, BalconyStep(b)
      PROVE  IInv'
  BY <1>2, BalconyTypes, BalconyPointsKept, BalconyMutexKept, BalconyPhasesKept,
     BalconyLocalsKept, BalconyMemoryKept, BalconyWaitingKept, BalconyHandsKept,
     BalconyAllocationKept, BalconyCountsKept
     DEF IInv
<1>3. CASE UNCHANGED vars
  BY <1>3, StutterHolds
<1>4. QED
  BY <1>1, <1>2, <1>3 DEF Next

\* The list, the numbers in it, what the threads hold and the semaphores always
\* belong together as IInv says.
THEOREM QueueInvariant == Spec => []IInv
<1>1. Init => IInv
  BY InitHolds
<1>2. IInv /\ [Next]_vars => IInv'
  BY NextHolds
<1>3. QED
  BY <1>1, <1>2, PTL DEF Spec

\* Every variable keeps to its values; empty never exceeds the places of the queue,
\* and full never the requests that wait and the posts of the shutdown.
THEOREM TypeCorrect == Spec => []TypeOK
<1>1. IInv => TypeOK
  BY DEF IInv
<1>2. QED
  BY <1>1, QueueInvariant, PTL

\* The pid of a request is logged after the request was unlocked and before the
\* semaphore is posted: it is the last of the list then, for those who passed the
\* semaphore are fewer than those who wait in the list.
LEMMA LastIsThere ==
    ASSUME IInv, pc[Main] \in {"unlock", "post_full"}
    PROVE  request \in allocated
<1>1. InService /\ ListKnown
  BY ListFacts DEF InService, IInv
<1>2. /\ Len(List) \in Nat /\ full \in Nat /\ Cardinality(InLine) \in Nat
      /\ Len(List) = full + Cardinality(InLine) + 1
  BY <1>1, Numbers, Bounds, Counts DEF IInv, FullCounts
<1>3. Len(List) \in 1 .. Len(List)
  BY <1>2
<1>4. node[List[Len(List)]].val = Put - Len(List) + Len(List) /\ Put \in Nat
  BY <1>3, Numbers DEF IInv, Waiting
<1>5. node[List[Len(List)]].val = Put
  BY <1>2, <1>4
<1>6. request = last_read /\ request \in Requests
  BY DEF IInv, MainLocals
<1>7. Put = last_read
  BY <1>6, CellsAreMany DEF Put, NotPut, Unlinked
<1>8. List[Len(List)] \in ToSet(List)
  BY <1>1, <1>3 DEF ListKnown
<1>9. QED
  BY <1>5, <1>6, <1>7, <1>8 DEF IInv, Allocation

\* No thread uses a node or a request that was freed: main still reads the request
\* that it put and unlocked, walks the list under the mutex, and deletes it when the
\* balconies are gone; a balcony answers a request that no other one frees.
THEOREM NothingFreedIsUsed == Spec => []NoUseAfterFree
<1>1. IInv => NoUseAfterFree
  <2> SUFFICES ASSUME IInv PROVE NoUseAfterFree
    OBVIOUS
  <2>1. pc[Main] = "walk" => node[iter] # Free
    BY PointersAreNodes DEF IInv, Linking
  <2>2. ASSUME NEW b \in Balconies
        PROVE  /\ pc[b] = "pop" => front \in Cells /\ node[front] # Free
               /\ pc[b] \in Holding => first_request[b] \in allocated
               /\ state # "aborted" /\ pc[b] # "done" => state = "live"
    <3>1. pc[b] = "pop" => front \in Cells /\ node[front] # Free
      BY PointersAreNodes, CellsAreMany DEF IInv, Hands
    <3>2. pc[b] \in Holding => first_request[b] \in allocated
      BY DEF IInv, Allocation, Held
    <3>3. state # "aborted" /\ pc[b] # "done" => state = "live"
      BY DEF IInv, TypeOK, Phases, Deleting
    <3>4. QED
      BY <3>1, <3>2, <3>3
  <2>3. QED
    BY <2>1, <2>2, LastIsThere DEF NoUseAfterFree
<1>2. QED
  BY <1>1, QueueInvariant, PTL

\* A node is in the list or in the hands of main, and a request is in the list or in
\* the hands of one thread, whatever was allocated and freed before.
THEOREM NothingLeaks == Spec => []NoLeak
<1>1. IInv => NoLeak
  BY DEF IInv, NodesInUse, Allocation, Held, NoLeak
<1>2. QED
  BY <1>1, QueueInvariant, PTL

-----------------------------------------------------------------------------
(* The ordered queue is implemented.                                       *)

\* What waits is the last that was put.
QueueKnown ==
    /\ InQueue \in Seq(Int) /\ Len(InQueue) = Len(List)
    /\ \A i \in 1 .. Len(List) : InQueue[i] = Put - Len(List) + i
    /\ Put \in Nat /\ Len(List) \in Nat

\* What the invariant says of the requests in the queue.
LEMMA QueueFacts == IInv => QueueKnown
<1> SUFFICES ASSUME IInv PROVE QueueKnown
  OBVIOUS
<1>1. Put \in Nat /\ Len(List) \in Nat
  BY Numbers
<1>2. DOMAIN List = 1 .. Len(List)
  <2>1. ListKnown
    BY ListFacts DEF IInv
  <2>2. QED
    BY <2>1 DEF ListKnown
<1>3. \A i \in 1 .. Len(List) : node[List[i]].val = Put - Len(List) + i
  BY DEF IInv, Waiting
<1>4. InQueue = [i \in 1 .. Len(List) |-> Put - Len(List) + i]
  BY <1>2, <1>3 DEF InQueue
<1>5. PICK n \in Nat, p \in Nat : n = Len(List) /\ p = Put
  BY <1>1
<1>6. [i \in 1 .. n |-> p - n + i] \in Seq(Int) /\ Len([i \in 1 .. n |-> p - n + i]) = n
  OBVIOUS
<1>7. InQueue \in Seq(Int) /\ Len(InQueue) = n
  BY <1>4, <1>5, <1>6
<1>8. \A i \in 1 .. Len(List) : InQueue[i] = Put - Len(List) + i
  BY <1>4
<1>9. QED
  BY <1>1, <1>5, <1>7, <1>8 DEF QueueKnown

\* The same in the next state.
LEMMA QueueFactsNext == IInv' => QueueKnown'
BY QueueFacts, PTL

\* The queue depends on no more than what was put and what was taken.
LEMMA QueueStays ==
    ASSUME QueueKnown, QueueKnown', Put' = Put, Len(List') = Len(List)
    PROVE  InQueue' = InQueue
<1>1. PICK s, t : s = InQueue /\ t = InQueue'
  OBVIOUS
<1>2. s \in Seq(Int) /\ t \in Seq(Int) /\ Len(s) = Len(t)
  BY <1>1 DEF QueueKnown
<1>3. \A i \in 1 .. Len(s) : s[i] = t[i]
  BY <1>1 DEF QueueKnown
<1>4. QED
  BY <1>1, <1>2, <1>3, SeqEqual

\* One more node that was put is an append to the requests in the queue.
LEMMA QueueGrows ==
    ASSUME QueueKnown, QueueKnown', Put' = Put + 1, Len(List') = Len(List) + 1
    PROVE  InQueue' = Append(InQueue, Put + 1)
<1>1. PICK s, t, p, n : s = InQueue /\ t = InQueue' /\ p = Put /\ n = Len(List)
  OBVIOUS
<1>2. /\ s \in Seq(Int) /\ t \in Seq(Int) /\ p \in Nat /\ n \in Nat
      /\ Len(s) = n /\ Len(t) = n + 1
  BY <1>1 DEF QueueKnown
<1>3. /\ \A i \in 1 .. n : s[i] = p - n + i
      /\ \A i \in 1 .. n + 1 : t[i] = p + 1 - (n + 1) + i
  BY <1>1 DEF QueueKnown
<1>4. PICK u : u = Append(s, p + 1)
  OBVIOUS
<1>5. /\ u \in Seq(Int) /\ Len(u) = n + 1 /\ u[n + 1] = p + 1
      /\ \A i \in 1 .. n : u[i] = s[i]
  BY <1>2, <1>4, AppendProperties
<1>6. \A i \in 1 .. Len(t) : t[i] = u[i]
  <2>1. ASSUME NEW i \in 1 .. n + 1 PROVE t[i] = u[i]
    <3>1. t[i] = p - n + i
      BY <1>2, <1>3
    <3>2. CASE i = n + 1
      BY <1>2, <1>5, <3>1, <3>2
    <3>3. CASE i \in 1 .. n
      BY <1>2, <1>3, <1>5, <3>1, <3>3
    <3>4. QED
      BY <1>2, <3>2, <3>3
  <2>2. QED
    BY <1>2, <2>1
<1>7. t = u
  BY <1>2, <1>5, <1>6, SeqEqual
<1>8. QED
  BY <1>1, <1>4, <1>7

\* One node less is the loss of their head.
LEMMA QueueShrinks ==
    ASSUME QueueKnown, QueueKnown', Put' = Put, Len(List) # 0, Len(List') = Len(List) - 1
    PROVE  /\ InQueue # <<>> /\ InQueue' = Tail(InQueue)
           /\ Head(InQueue) = Put - Len(List) + 1
<1>1. PICK s, t, p, n : s = InQueue /\ t = InQueue' /\ p = Put /\ n = Len(List)
  OBVIOUS
<1>2. /\ s \in Seq(Int) /\ t \in Seq(Int) /\ p \in Nat /\ n \in Nat /\ n # 0
      /\ Len(s) = n /\ Len(t) = n - 1 /\ s # <<>>
  BY <1>1 DEF QueueKnown
<1>3. /\ \A i \in 1 .. n : s[i] = p - n + i
      /\ \A i \in 1 .. n - 1 : t[i] = p - (n - 1) + i
  BY <1>1 DEF QueueKnown
<1>4. PICK u : u = Tail(s)
  OBVIOUS
<1>5. u \in Seq(Int) /\ Len(u) = n - 1 /\ \A i \in 1 .. n - 1 : u[i] = s[i + 1]
  BY <1>2, <1>4, HeadTailProperties
<1>6. \A i \in 1 .. Len(t) : t[i] = u[i]
  <2>1. ASSUME NEW i \in 1 .. n - 1 PROVE t[i] = u[i]
    <3>1. i + 1 \in 1 .. n
      BY <1>2
    <3>2. u[i] = p - n + (i + 1)
      BY <1>3, <1>5, <3>1
    <3>3. QED
      BY <1>2, <1>3, <3>2
  <2>2. QED
    BY <1>2, <2>1
<1>7. t = u
  BY <1>2, <1>5, <1>6, SeqEqual
<1>8. 1 \in 1 .. n /\ Head(s) = s[1]
  BY <1>2
<1>9. Head(s) = p - n + 1
  BY <1>3, <1>8
<1>10. QED
  BY <1>1, <1>2, <1>4, <1>7, <1>9

\* A step of main puts a request in the abstract queue, or is not seen.
LEMMA MainImplements ==
    ASSUME IInv, IInv', MainStep
    PROVE  Q!Put \/ UNCHANGED Q!vars
<1>1. QueueKnown /\ QueueKnown' /\ Put \in Nat /\ Len(List) \in Nat
  BY QueueFacts, QueueFactsNext, Numbers
<1>2. Taken' = Taken
  BY MainLeaves DEF Taken
<1>3. Put' - Len(List') = Put - Len(List) /\ Len(List') \in Nat
  BY MainTaken
<1>4. CASE Puts
  <2>1. Put' = Put + 1
    BY <1>4, MainPut
  <2>2. Len(List') = Len(List) + 1
    BY <1>1, <1>3, <2>1
  <2>3. InQueue' = Append(InQueue, Put + 1)
    BY <1>1, <2>1, <2>2, QueueGrows
  <2>4. pc[Main] \in {"push", "walk"}
    BY <1>4 DEF Puts, PushNew, PushLink, Move
  <2>5. Len(InQueue) < n_threads
    <3>1. Len(List) < n_threads
      BY <2>4, Bounds DEF InService
    <3>2. QED
      BY <1>1, <3>1 DEF QueueKnown
  <2>6. Put < Arrivals
    <3>1. last_read = Put + 1
      BY <2>4, PutType DEF Unlinked
    <3>2. last_read \in 0 .. Arrivals /\ Arrivals \in Nat
      BY CellsAreMany DEF IInv, TypeOK
    <3>3. QED
      BY <1>1, <3>1, <3>2
  <2>7. QED
    BY <1>2, <2>1, <2>3, <2>5, <2>6 DEF Q!Put
<1>5. CASE ~Puts
  <2>1. Put' = Put
    BY <1>5, MainPut
  <2>2. Len(List') = Len(List)
    BY <1>1, <1>3, <2>1
  <2>3. InQueue' = InQueue
    BY <1>1, <2>1, <2>2, QueueStays
  <2>4. QED
    BY <1>2, <2>1, <2>3 DEF Q!vars
<1>6. QED
  BY <1>4, <1>5

\* A step of a balcony takes a request, finishes one, or is not seen.
LEMMA BalconyImplements ==
    ASSUME IInv, IInv', NEW b \in Balconies, BalconyStep(b)
    PROVE  Q!Take(b) \/ Q!Finish(b) \/ UNCHANGED Q!vars
<1> USE DEF Move, Lock
<1>0. /\ QueueKnown /\ QueueKnown' /\ ListIsChain /\ Hands
      /\ Put \in Nat /\ Len(List) \in Nat /\ Put' = Put
      /\ DOMAIN pc = Balconies \cup {Main} /\ DOMAIN first_request = Balconies
      /\ \A c \in Balconies \ {b} : pc'[c] = pc[c] /\ first_request'[c] = first_request[c]
  BY QueueFacts, QueueFactsNext, Numbers, BalconyLeaves DEF IInv, TypeOK
<1>1. \A c \in Balconies \ {b} : Taken'[c] = Taken[c]
  BY <1>0 DEF Taken
<1>2. CASE QueuePop(b)
  <2>1. Len(List) # 0 /\ Len(List') = Len(List) - 1
    BY <1>2, QueuePopTakes
  <2>2. /\ InQueue # <<>> /\ InQueue' = Tail(InQueue)
        /\ Head(InQueue) = Put - Len(List) + 1
    BY <1>0, <2>1, QueueShrinks
  <2>3. /\ pc[b] = "pop" /\ pc'[b] = "post_empty" /\ first_request' = first_request
    BY <1>0, <1>2 DEF QueuePop, balconyVars
  <2>4. first_request[b] = Head(InQueue)
    BY <1>0, <2>2, <2>3, Numbers, CellsAreMany DEF Hands
  <2>5. Taken[b] = NoRequest /\ Taken'[b] = Head(InQueue)
    BY <2>3, <2>4 DEF Taken
  <2>6. Taken' = [Taken EXCEPT ![b] = Head(InQueue)]
    BY <1>1, <2>5 DEF Taken
  <2>7. QED
    BY <1>0, <2>2, <2>5, <2>6 DEF Q!Take
<1>3. CASE ~QueuePop(b)
  <2>1. InQueue' = InQueue
    <3>1. List' = List
      BY <1>0, <1>3, BalconyQuiet, ListStays
    <3>2. Len(List') = Len(List)
      BY <3>1
    <3>3. QED
      BY <1>0, <3>2, QueueStays
  <2>2. CASE FreeRequest(b)
    <3>1. pc[b] = "free" /\ pc'[b] = "wait_full" /\ first_request'[b] = NoRequest
      BY <1>0, <2>2 DEF FreeRequest
    <3>2. Taken[b] # NoRequest /\ Taken'[b] = NoRequest
      BY <1>0, <3>1 DEF Taken, Hands, Held, Holding
    <3>3. Taken' = [Taken EXCEPT ![b] = NoRequest]
      BY <1>1, <3>2 DEF Taken
    <3>4. QED
      BY <1>0, <2>1, <3>2, <3>3 DEF Q!Finish
  <2>3. CASE QueueFront(b)
    <3>1. pc[b] = "take" /\ pc'[b] = "pop"
      BY <1>0, <2>3 DEF QueueFront
    <3>2. Taken[b] = NoRequest /\ Taken'[b] = NoRequest
      BY <1>0, <3>1 DEF Taken, Hands, Held, Holding
    <3>3. Taken' = Taken
      BY <1>1, <3>2 DEF Taken
    <3>4. QED
      BY <1>0, <2>1, <3>3 DEF Q!vars
  <2>4. CASE ~FreeRequest(b) /\ ~QueueFront(b)
    <3>1. first_request' = first_request /\ pc[b] # "pop" /\ pc'[b] # "pop"
      BY <1>0, <1>3, <2>4 DEF BalconyStep, balconyVars, WaitFull, IsQueueEmpty, Decide,
         QueueFrontFails, PostEmpty, Serve
    <3>2. Taken'[b] = Taken[b]
      BY <3>1 DEF Taken
    <3>3. Taken' = Taken
      BY <1>1, <3>2 DEF Taken
    <3>4. QED
      BY <1>0, <2>1, <3>3 DEF Q!vars
  <2>5. QED
    BY <2>2, <2>3, <2>4
<1>4. QED
  BY <1>2, <1>3

\* The linked list, the mutex and the semaphores implement the bounded queue that
\* keeps the order of arrival: a link that main completes puts a request, a pop takes
\* the oldest, a free finishes it, and no other step of any thread is seen.
THEOREM QueueIsImplemented == Spec => QueueSpec
<1>1. Init => Q!Init
  <2> SUFFICES ASSUME Init PROVE Q!Init
    OBVIOUS
  <2>1. pc[Main] = "read" /\ \A b \in Balconies : pc[b] = "wait_full"
    BY CellsAreMany DEF Init
  <2>2. Put = 0 /\ Taken = [b \in Balconies |-> NoRequest]
    BY <2>1 DEF Init, Put, NotPut, Unlinked, Taken, NoRequest
  <2>3. Len(List) = 0
    <3>1. ListKnown /\ front = NULL
      BY InitHolds, ListFacts DEF IInv, Init
    <3>2. QED
      BY <3>1 DEF ListKnown
  <2>4. InQueue = <<>>
    <3>1. QueueKnown
      BY InitHolds, QueueFacts
    <3>2. InQueue \in Seq(Int) /\ Len(InQueue) = 0
      BY <2>3, <3>1 DEF QueueKnown
    <3>3. QED
      BY <3>2, EmptySeq
  <2>5. QED
    BY <2>2, <2>4 DEF Q!Init
<1>2. IInv /\ IInv' /\ [Next]_vars => [Q!Next]_(Q!vars)
  <2> SUFFICES ASSUME IInv, IInv', [Next]_vars PROVE [Q!Next]_(Q!vars)
    OBVIOUS
  <2>1. CASE MainStep
    BY <2>1, MainImplements DEF Q!Next
  <2>2. ASSUME NEW b \in Balconies, BalconyStep(b) PROVE [Q!Next]_(Q!vars)
    BY <2>2, BalconyImplements DEF Q!Next
  <2>3. CASE UNCHANGED vars
    <3>1. List' = List
      BY <2>3, ListStays DEF IInv, vars, memVars
    <3>2. InQueue' = InQueue /\ Put' = Put /\ Taken' = Taken
      BY <2>3, <3>1 DEF InQueue, Put, NotPut, Taken, vars, memVars, mainVars, balconyVars
    <3>3. QED
      BY <3>2 DEF Q!vars
  <2>4. QED
    BY <2>1, <2>2, <2>3 DEF Next
<1>3. QED
  BY <1>1, <1>2, QueueInvariant, PTL DEF Spec, QueueSpec, Q!Spec

=============================================================================
