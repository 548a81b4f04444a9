------------------------ MODULE MerchantPolicyProofs ------------------------
(***************************************************************************)
(* Proofs about MerchantPolicy, for every set of policies, clients and     *)
(* workers.                                                                *)
(***************************************************************************)
EXTENDS MerchantPolicy, TLAPS

(* Nobody has lost the race while the merchant's row is missing, nor anyone  *)
(* who still takes it to be missing.                                         *)
ConflictInv ==
    /\ merchant = Absent => \A x \in Clients \cup Workers : conflicts[x] = 0
    /\ \A w \in Workers : worker[w].pc = "insert" => conflicts[w] = 0
    /\ \A c \in Clients :
          client[c].pc = "commit" /\ client[c].loaded = Absent => conflicts[c] = 0
    /\ OneConflictEach

(* Requests that run at once know each other's policies, and the row is the  *)
(* one a request has loaded unless one of these was saved since.             *)
SaveInv ==
    /\ \A c, d \in Clients :
          Saving(c) /\ Saving(d) /\ c # d => client[d].update \in client[c].overlaps
    /\ \A c \in Clients :
          client[c].pc = "commit" =>
             \/ client[c].loaded = Absent
             \/ merchant = client[c].loaded
             \/ \E u \in client[c].overlaps : merchant = Saved(u)
    /\ LastSaveIsKept
-----------------------------------------------------------------------------
(* Types. *)

LEMMA TypeInit == Init => TypeOK
  BY DEF Init, TypeOK, MerchantRow, Absent, NoRequest, NoTask, WorkerState, Saving

(* The limits of a saved policy are those of the form.                       *)
Limited(rows) ==
    \A row \in rows : \A u \in row :
        u.max_recovery_actions_per_case <= 10 /\ u.max_payment_links_per_case <= 5

LEMMA SavedIsLimited ==
  ASSUME NEW u \in Updates, Valid(u)
  PROVE  Saved(u) \in MerchantRow /\ Limited(Saved(u))
  BY DEF Saved, MerchantRow, Limited, Valid

(* A request in a state it may be in.                                        *)
RequestOK(q) == IF q.pc \in {"load", "commit"} THEN q \in RequestState ELSE q = NoRequest

LEMMA TypeIs ==
  TypeOK <=> /\ merchant \in MerchantRow /\ Limited(merchant)
             /\ client = [c \in Clients |-> client[c]]
             /\ \A c \in Clients : RequestOK(client[c])
             /\ worker \in [Workers -> WorkerState]
             /\ conflicts \in [Clients \cup Workers -> Nat]
             /\ last \subseteq Updates
  BY DEF TypeOK, Limited, RequestOK, Saving

(* What a request becomes when it arrives, when another one arrives, and     *)
(* when it has loaded the row.                                               *)
Arrived(u, others) == [pc |-> "load", update |-> u, loaded |-> Absent, overlaps |-> others]
Beside(q, u) ==
    [pc |-> q.pc, update |-> q.update, loaded |-> q.loaded, overlaps |-> q.overlaps \cup {u}]
Loaded(q, row) ==
    [pc |-> "commit", update |-> q.update, loaded |-> row, overlaps |-> q.overlaps]
Others == {client[x].update : x \in {y \in Clients : Saving(y)}}

LEMMA Replaced ==
  ASSUME NEW q \in RequestState, NEW u, NEW row
  PROVE  /\ [q EXCEPT !.overlaps = @ \cup {u}] = Beside(q, u)
         /\ [q EXCEPT !.pc = "commit", !.loaded = row] = Loaded(q, row)
<1>1. /\ [q EXCEPT !.overlaps = @ \cup {u}] = Beside(q, u)
      /\ [q EXCEPT !.pc = "commit"] = Loaded(q, q.loaded)
  BY DEF RequestState, Beside, Loaded
<1>2. [Loaded(q, q.loaded) EXCEPT !.loaded = row] = Loaded(q, row)
  BY DEF Loaded
<1> QED BY <1>1, <1>2, Zenon

LEMMA RequestIs ==
  ASSUME TypeOK, NEW c \in Clients, NEW u \in Updates, Request(c, u)
  PROVE  client' = [d \in Clients |-> IF d = c THEN Arrived(u, Others)
                                      ELSE IF Saving(d) THEN Beside(client[d], u)
                                      ELSE client[d]]
<1>1. \A d \in Clients : Saving(d) => client[d] \in RequestState
  BY DEF TypeOK
<1>2. \A d \in Clients :
         Saving(d) => [client[d] EXCEPT !.overlaps = @ \cup {u}] = Beside(client[d], u)
  BY <1>1, Replaced
<1> QED BY <1>2 DEF Request, Arrived, Others

LEMMA LoadIs ==
  ASSUME TypeOK, NEW c \in Clients, Load(c)
  PROVE  client' = [client EXCEPT ![c] = Loaded(client[c], merchant)]
<1>1. client[c] \in RequestState
  BY DEF TypeOK, Load, Saving
<1>2. [client[c] EXCEPT !.pc = "commit", !.loaded = merchant] = Loaded(client[c], merchant)
  BY <1>1, Replaced
<1>3. client' = [client EXCEPT ![c] = [client[c] EXCEPT !.pc = "commit", !.loaded = merchant]]
  BY Zenon DEF Load
<1> QED BY <1>2, <1>3, Zenon

(* The workers leave the requests alone and touch the merchant's row only to *)
(* insert it.                                                                *)
Works(w) ==
    \/ \E amount \in Amounts : Task(w, amount)
    \/ Lookup(w) \/ Insert(w) \/ InsertConflicts(w) \/ Decide(w) \/ Interrupted(w)

LEMMA WorkerSteps ==
  ASSUME TypeOK, NEW w \in Workers, Works(w)
  PROVE  /\ UNCHANGED <<client, last>>
         /\ merchant' = merchant \/ (merchant = Absent /\ merchant' = Empty)
         /\ worker' \in [Workers -> WorkerState]
         /\ \A v \in Workers :
               worker'[v].pc = "insert" =>
                  \/ /\ worker[v].pc = "insert"
                     /\ v # w \/ UNCHANGED conflicts
                  \/ merchant = Absent /\ UNCHANGED conflicts
         /\ \/ UNCHANGED conflicts
            \/ /\ worker[w].pc = "insert" /\ merchant # Absent /\ UNCHANGED merchant
               /\ conflicts' = [conflicts EXCEPT ![w] = @ + 1]
<1>t. worker \in [Workers -> WorkerState]
  BY DEF TypeOK
<1>w. /\ worker[w].amount \in Amounts \cup {0}
      /\ \A step \in {"lookup", "insert", "decide"} :
            [worker[w] EXCEPT !.pc = step] \in WorkerState
  BY <1>t DEF WorkerState
<1> USE DEF Works
<1>1. ASSUME NEW amount \in Amounts, Task(w, amount)
      PROVE  /\ worker' \in [Workers -> WorkerState]
             /\ \A v \in Workers : worker'[v].pc = "insert" => worker[v].pc = "insert"
             /\ UNCHANGED <<merchant, client, conflicts, last>>
  BY <1>t, <1>1 DEF Task, WorkerState
<1>2. CASE Lookup(w)
  BY <1>t, <1>w, <1>2 DEF Lookup, WorkerState
<1>3. CASE Insert(w)
  BY <1>t, <1>w, <1>3 DEF Insert, WorkerState
<1>4. CASE InsertConflicts(w)
  BY <1>t, <1>w, <1>4 DEF InsertConflicts, WorkerState
<1>5. CASE Decide(w)
  <2> DEFINE allowed == Allows(DefaultPolicy, worker[w].amount)
             decided == [pc |-> "decided", amount |-> worker[w].amount, allowed |-> allowed]
  <2>1. allowed \in BOOLEAN
    BY DEF Allows, Evaluate
  <2> HIDE DEF allowed
  <2>2. [worker[w] EXCEPT !.pc = "decided", !.allowed = allowed] = decided
    <3>1. [worker[w] EXCEPT !.pc = "decided"] =
             [pc |-> "decided", amount |-> worker[w].amount, allowed |-> worker[w].allowed]
      BY <1>t DEF WorkerState
    <3>2. [[pc |-> "decided", amount |-> worker[w].amount, allowed |-> worker[w].allowed]
             EXCEPT !.allowed = allowed] = decided
      OBVIOUS
    <3> QED BY <3>1, <3>2, Zenon
  <2>3. worker' = [worker EXCEPT ![w] = [worker[w] EXCEPT !.pc = "decided",
                                                          !.allowed = allowed]]
    BY <1>5, Zenon DEF Decide, allowed
  <2>4. worker' = [worker EXCEPT ![w] = decided]
    BY <2>2, <2>3, Zenon
  <2>5. decided \in WorkerState
    BY <1>w, <2>1 DEF WorkerState
  <2>6. /\ UNCHANGED <<client, conflicts, last>>
        /\ merchant' = merchant \/ (merchant = Absent /\ merchant' = Empty)
    BY <1>5 DEF Decide, CommittedMerchant
  <2> QED BY <1>t, <2>4, <2>5, <2>6
<1>6. CASE Interrupted(w)
  BY <1>t, <1>6 DEF Interrupted, NoTask, WorkerState
<1> QED BY <1>1, <1>2, <1>3, <1>4, <1>5, <1>6

LEMMA TypeStep == TypeOK /\ [Next]_vars => TypeOK'
<1> SUFFICES ASSUME TypeOK, [Next]_vars PROVE TypeOK'
  OBVIOUS
<1>t. /\ merchant \in MerchantRow /\ Limited(merchant)
      /\ client = [c \in Clients |-> client[c]]
      /\ \A c \in Clients : RequestOK(client[c])
      /\ worker \in [Workers -> WorkerState]
      /\ conflicts \in [Clients \cup Workers -> Nat]
      /\ last \subseteq Updates
  BY TypeIs
<1>s. ASSUME merchant' \in MerchantRow /\ Limited(merchant'),
             client' = [c \in Clients |-> client'[c]],
             \A c \in Clients : RequestOK(client'[c]),
             worker' \in [Workers -> WorkerState],
             conflicts' \in [Clients \cup Workers -> Nat],
             last' \subseteq Updates
      PROVE  TypeOK'
  BY <1>s DEF TypeOK, Limited, RequestOK, Saving
<1>1. CASE UNCHANGED vars
  BY <1>t, <1>s, <1>1 DEF vars
<1>2. ASSUME NEW c \in Clients, NEW u \in Updates, Request(c, u)
      PROVE  TypeOK'
  <2>1. Others \subseteq Updates
    BY <1>t DEF Others, Saving, RequestOK, RequestState
  <2>2. RequestOK(Arrived(u, Others))
    BY <1>2, <2>1 DEF Request, Arrived, RequestOK, RequestState, MerchantRow
  <2>3. \A d \in Clients : Saving(d) => RequestOK(Beside(client[d], u))
    BY <1>t DEF Saving, RequestOK, RequestState, Beside
  <2>4. UNCHANGED <<merchant, worker, conflicts, last>>
    BY <1>2 DEF Request
  <2> QED BY <1>t, <1>s, <1>2, <2>2, <2>3, <2>4, RequestIs
<1>3. ASSUME NEW c \in Clients, Load(c)
      PROVE  TypeOK'
  <2>1. RequestOK(Loaded(client[c], merchant))
    BY <1>t, <1>3 DEF Load, Loaded, RequestOK, RequestState
  <2>2. UNCHANGED <<merchant, worker, conflicts, last>>
    BY <1>3 DEF Load
  <2> QED BY <1>t, <1>s, <1>3, <2>1, <2>2, LoadIs
<1>4. ASSUME NEW c \in Clients, Save(c)
      PROVE  TypeOK'
  <2>1. /\ client[c].update \in Updates /\ Valid(client[c].update)
        /\ client[c].overlaps \subseteq Updates
    BY <1>t, <1>4 DEF Save, RequestOK, RequestState
  <2>2. merchant' \in MerchantRow /\ Limited(merchant')
    BY <1>t, <1>4, <2>1, SavedIsLimited DEF Save
  <2>3. RequestOK(NoRequest)
    BY DEF RequestOK, NoRequest
  <2> QED BY <1>t, <1>s, <1>4, <2>1, <2>2, <2>3 DEF Save
<1>5. ASSUME NEW c \in Clients, SaveConflicts(c)
      PROVE  TypeOK'
  <2>1. RequestOK(NoRequest)
    BY DEF RequestOK, NoRequest
  <2> QED BY <1>t, <1>s, <1>5, <2>1 DEF SaveConflicts
<1>6. ASSUME NEW w \in Workers, Works(w)
      PROVE  TypeOK'
  <2>1. Empty \in MerchantRow /\ Limited(Empty)
    BY DEF Empty, MerchantRow, Limited
  <2> QED BY <1>t, <1>s, <1>6, <2>1, WorkerSteps
<1> QED BY <1>1, <1>2, <1>3, <1>4, <1>5, <1>6 DEF Next, Works

(* The saved policy is within the bounds of the form, through every          *)
(* interleaving of requests and workers.                                     *)
THEOREM TypeCorrect == Spec => []TypeOK
  BY TypeInit, TypeStep, PTL DEF Spec

-----------------------------------------------------------------------------
(* The race for the merchant's row. *)

LEMMA ConflictInit == Init => ConflictInv
  BY DEF Init, ConflictInv, OneConflictEach, NoRequest, NoTask

(* The merchant's row stays: a worker inserts it empty, a request writes its *)
(* policy.                                                                   *)
LEMMA RowStays ==
  ASSUME TypeOK, [Next]_vars, merchant # Absent
  PROVE  merchant' # Absent
<1>1. \A u : Saved(u) # Absent
  BY DEF Saved, Absent
<1>2. Empty # Absent
  BY DEF Empty, Absent
<1>3. CASE UNCHANGED vars
  BY <1>3 DEF vars
<1>4. ASSUME NEW c \in Clients,
             (\E u \in Updates : Request(c, u)) \/ Load(c) \/ Save(c) \/ SaveConflicts(c)
      PROVE  merchant' # Absent
  BY <1>1, <1>4 DEF Request, Load, Save, SaveConflicts
<1>5. ASSUME NEW w \in Workers, Works(w)
      PROVE  merchant' # Absent
  BY <1>2, <1>5, WorkerSteps
<1> QED BY <1>3, <1>4, <1>5 DEF Next, Works

LEMMA ConflictStep == TypeOK /\ ConflictInv /\ [Next]_vars => ConflictInv'
<1> SUFFICES ASSUME TypeOK, ConflictInv, [Next]_vars PROVE ConflictInv'
  OBVIOUS
<1>t. /\ client = [c \in Clients |-> client[c]]
      /\ conflicts \in [Clients \cup Workers -> Nat]
      /\ Clients \cap Workers = {}
  BY PolicyAssumption DEF TypeOK
<1>i. /\ merchant = Absent => \A x \in Clients \cup Workers : conflicts[x] = 0
      /\ \A w \in Workers : worker[w].pc = "insert" => conflicts[w] = 0
      /\ \A c \in Clients :
            client[c].pc = "commit" /\ client[c].loaded = Absent => conflicts[c] = 0
      /\ \A x \in Clients \cup Workers : conflicts[x] <= 1
  BY DEF ConflictInv, OneConflictEach
<1>s. ASSUME merchant' = Absent => \A x \in Clients \cup Workers : conflicts'[x] = 0,
             \A w \in Workers : worker'[w].pc = "insert" => conflicts'[w] = 0,
             \A c \in Clients :
                client'[c].pc = "commit" /\ client'[c].loaded = Absent => conflicts'[c] = 0,
             \A x \in Clients \cup Workers : conflicts'[x] <= 1
      PROVE  ConflictInv'
  BY <1>s DEF ConflictInv, OneConflictEach
<1>1. CASE UNCHANGED vars
  BY <1>i, <1>s, <1>1 DEF vars
<1>2. ASSUME NEW c \in Clients, NEW u \in Updates, Request(c, u)
      PROVE  ConflictInv'
  <2>1. \A d \in Clients :
           client'[d].pc = "commit" => client[d].pc = "commit" /\ client'[d].loaded = client[d].loaded
    BY <1>2, RequestIs DEF Arrived, Beside
  <2>2. UNCHANGED <<merchant, worker, conflicts>>
    BY <1>2 DEF Request
  <2> QED BY <1>i, <1>s, <2>1, <2>2
<1>3. ASSUME NEW c \in Clients, Load(c)
      PROVE  ConflictInv'
  <2>1. \A d \in Clients \ {c} : client'[d] = client[d]
    BY <1>t, <1>3, LoadIs
  <2>2. client'[c].loaded = merchant
    BY <1>t, <1>3, LoadIs DEF Loaded
  <2>3. UNCHANGED <<merchant, worker, conflicts>>
    BY <1>3 DEF Load
  <2> QED BY <1>i, <1>s, <2>1, <2>2, <2>3
<1>4. ASSUME NEW c \in Clients, Save(c)
      PROVE  ConflictInv'
  <2>1. \A d \in Clients : client'[d].pc = "commit" => client'[d] = client[d]
    BY <1>t, <1>4 DEF Save, NoRequest
  <2>2. merchant' = Absent => merchant = Absent
    BY RowStays
  <2>3. UNCHANGED <<worker, conflicts>>
    BY <1>4 DEF Save
  <2> QED BY <1>i, <1>s, <2>1, <2>2, <2>3
<1>5. ASSUME NEW c \in Clients, SaveConflicts(c)
      PROVE  ConflictInv'
  <2>1. \A d \in Clients : client'[d].pc = "commit" => d # c /\ client'[d] = client[d]
    BY <1>t, <1>5 DEF SaveConflicts, NoRequest
  <2>2. conflicts'[c] = 1 /\ \A x \in Clients \cup Workers : x # c => conflicts'[x] = conflicts[x]
    <3>1. conflicts[c] = 0
      BY <1>i, <1>5 DEF SaveConflicts
    <3> QED BY <1>t, <1>5, <3>1 DEF SaveConflicts
  <2>3. merchant' # Absent /\ UNCHANGED worker
    BY <1>5 DEF SaveConflicts
  <2> QED BY <1>t, <1>i, <1>s, <2>1, <2>2, <2>3
<1>6. ASSUME NEW w \in Workers, Works(w)
      PROVE  ConflictInv'
  <2>1. CASE UNCHANGED conflicts
    <3>1. \A v \in Workers : worker'[v].pc = "insert" => conflicts[v] = 0
      BY <1>i, <1>6, WorkerSteps
    <3>2. merchant' = Absent => merchant = Absent
      BY RowStays
    <3>3. UNCHANGED client
      BY <1>6, WorkerSteps
    <3> QED BY <1>i, <1>s, <2>1, <3>1, <3>2, <3>3
  <2>2. CASE ~UNCHANGED conflicts
    <3>1. /\ worker[w].pc = "insert" /\ merchant' # Absent
          /\ conflicts' = [conflicts EXCEPT ![w] = @ + 1]
      BY <1>6, <2>2, WorkerSteps
    <3>2. /\ conflicts'[w] = 1
          /\ \A x \in Clients \cup Workers : x # w => conflicts'[x] = conflicts[x]
      <4>1. conflicts[w] = 0
        BY <1>i, <3>1
      <4> QED BY <1>t, <3>1, <4>1
    <3>3. \A v \in Workers : worker'[v].pc = "insert" => v # w /\ worker[v].pc = "insert"
      BY <1>6, <2>2, <3>1, WorkerSteps
    <3>4. UNCHANGED client
      BY <1>6, WorkerSteps
    <3> QED BY <1>t, <1>i, <1>s, <3>1, <3>2, <3>3, <3>4
  <2> QED BY <2>1, <2>2
<1> QED BY <1>1, <1>2, <1>3, <1>4, <1>5, <1>6 DEF Next, Works

LEMMA ConflictInvariant == Spec => [](TypeOK /\ ConflictInv)
  BY TypeInit, TypeStep, ConflictInit, ConflictStep, PTL DEF Spec

(* Nobody loses the race for the merchant's row twice, however many race.    *)
THEOREM OneConflict == Spec => []OneConflictEach
<1>1. ConflictInv => OneConflictEach
  BY DEF ConflictInv
<1> QED BY <1>1, ConflictInvariant, PTL

-----------------------------------------------------------------------------
(* Saves that overlap. *)

LEMMA SaveInit == Init => SaveInv
  BY DEF Init, SaveInv, LastSaveIsKept, NoRequest, Saving

(* The row a request finds when it saves is its own, one saved beside it, or *)
(* one it replaces.                                                          *)
LEMMA SavedRow ==
  ASSUME TypeOK, SaveInv, NEW c \in Clients, Save(c)
  PROVE  \/ merchant' = Saved(client[c].update)
         \/ /\ merchant' = merchant
            /\ \E u \in client[c].overlaps : merchant = Saved(u)
<1>1. CASE Saved(client[c].update) # client[c].loaded
  BY <1>1 DEF Save
<1>2. CASE Saved(client[c].update) = client[c].loaded
  <2>1. client[c].loaded # Absent
    BY <1>2 DEF Saved, Absent
  <2> QED BY <1>2, <2>1 DEF Save, SaveInv
<1> QED BY <1>1, <1>2

LEMMA SaveStep == TypeOK /\ SaveInv /\ [Next]_vars => SaveInv'
<1> SUFFICES ASSUME TypeOK, SaveInv, [Next]_vars PROVE SaveInv'
  OBVIOUS
<1> DEFINE Knows(q, p) == q.pc \in {"load", "commit"} /\ p.pc \in {"load", "commit"}
                             => p.update \in q.overlaps
           Finds(q, row) == q.pc = "commit" =>
                               \/ q.loaded = Absent
                               \/ row = q.loaded
                               \/ \E u \in q.overlaps : row = Saved(u)
           Kept(l, row) == l # {} => row \in {Saved(u) : u \in l}
<1>t. /\ client = [c \in Clients |-> client[c]]
      /\ \A c \in Clients : RequestOK(client[c])
  BY TypeIs
<1>i. /\ \A c, d \in Clients : c # d => Knows(client[c], client[d])
      /\ \A c \in Clients : Finds(client[c], merchant)
      /\ Kept(last, merchant)
  BY DEF SaveInv, Saving, LastSaveIsKept
<1>s. ASSUME \A c, d \in Clients : c # d => Knows(client'[c], client'[d]),
             \A c \in Clients : Finds(client'[c], merchant'),
             Kept(last', merchant')
      PROVE  SaveInv'
  BY <1>s DEF SaveInv, Saving, LastSaveIsKept
<1>1. CASE UNCHANGED vars
  BY <1>i, <1>s, <1>1 DEF vars
<1>2. ASSUME NEW c \in Clients, NEW u \in Updates, Request(c, u)
      PROVE  SaveInv'
  <2>1. client' = [d \in Clients |-> IF d = c THEN Arrived(u, Others)
                                     ELSE IF Saving(d) THEN Beside(client[d], u)
                                     ELSE client[d]]
    BY <1>2, RequestIs
  <2>2. UNCHANGED <<merchant, last>>
    BY <1>2 DEF Request
  <2>3. ASSUME NEW a \in Clients, NEW b \in Clients, a # b
        PROVE  Knows(client'[a], client'[b])
    <3>1. CASE a = c
      BY <2>1, <2>3, <3>1 DEF Arrived, Beside, Others, Saving
    <3>2. CASE b = c
      BY <2>1, <2>3, <3>2 DEF Arrived, Beside, Saving
    <3>3. CASE a # c /\ b # c
      BY <1>i, <2>1, <2>3, <3>3 DEF Beside, Saving
    <3> QED BY <3>1, <3>2, <3>3
  <2>4. ASSUME NEW d \in Clients
        PROVE  Finds(client'[d], merchant)
    BY <1>i, <2>1, <2>4 DEF Arrived, Beside, Saving
  <2> QED BY <1>i, <1>s, <2>2, <2>3, <2>4
<1>3. ASSUME NEW c \in Clients, Load(c)
      PROVE  SaveInv'
  <2>1. client' = [client EXCEPT ![c] = Loaded(client[c], merchant)]
    BY <1>3, LoadIs
  <2>2. UNCHANGED <<merchant, last>> /\ client[c].pc = "load"
    BY <1>3 DEF Load
  <2>3. \A a, b \in Clients : a # b => Knows(client'[a], client'[b])
    BY <1>t, <1>i, <2>1, <2>2 DEF Loaded
  <2>4. \A d \in Clients : Finds(client'[d], merchant)
    BY <1>t, <1>i, <2>1 DEF Loaded
  <2> QED BY <1>i, <1>s, <2>2, <2>3, <2>4
<1>4. ASSUME NEW c \in Clients, Save(c) \/ SaveConflicts(c)
      PROVE  SaveInv'
  <2>1. client' = [client EXCEPT ![c] = NoRequest]
    BY <1>4 DEF Save, SaveConflicts
  <2>2. \A a, b \in Clients : a # b => Knows(client'[a], client'[b])
    BY <1>t, <1>i, <2>1 DEF NoRequest
  <2>3. CASE SaveConflicts(c)
    <3>1. UNCHANGED <<merchant, last>>
      BY <2>3 DEF SaveConflicts
    <3>2. \A d \in Clients : Finds(client'[d], merchant)
      BY <1>t, <1>i, <2>1 DEF NoRequest
    <3> QED BY <1>i, <1>s, <2>2, <3>1, <3>2
  <2>4. CASE Save(c)
    <3>1. \/ merchant' = Saved(client[c].update)
          \/ /\ merchant' = merchant
             /\ \E u \in client[c].overlaps : merchant = Saved(u)
      BY <2>4, SavedRow
    <3>2. Kept(last', merchant')
      BY <2>4, <3>1 DEF Save
    <3>3. ASSUME NEW d \in Clients, client'[d].pc = "commit"
          PROVE  Finds(client'[d], merchant')
      <4>1. d # c /\ client'[d] = client[d]
        BY <1>t, <2>1, <3>3 DEF NoRequest
      <4>2. client[c].update \in client[d].overlaps
        BY <1>i, <2>4, <3>3, <4>1 DEF Save
      <4> QED BY <1>i, <3>1, <4>1, <4>2
    <3> QED BY <1>s, <2>2, <3>2, <3>3
  <2> QED BY <1>4, <2>3, <2>4
<1>5. ASSUME NEW w \in Workers, Works(w)
      PROVE  SaveInv'
  <2>1. /\ UNCHANGED <<client, last>>
        /\ merchant' = merchant \/ (merchant = Absent /\ merchant' = Empty)
    BY <1>5, WorkerSteps
  <2>2. CASE merchant' = merchant
    BY <1>i, <1>s, <2>1, <2>2
  <2>3. CASE merchant = Absent
    <3>1. \A u : Saved(u) # Absent
      BY DEF Saved, Absent
    <3> QED BY <1>i, <1>s, <2>1, <2>3, <3>1
  <2> QED BY <2>1, <2>2, <2>3
<1> QED BY <1>1, <1>2, <1>3, <1>4, <1>5 DEF Next, Works

LEMMA SaveInvariant == Spec => [](TypeOK /\ SaveInv)
  BY TypeInit, TypeStep, SaveInit, SaveStep, PTL DEF Spec

(* The saved policy is that of the last successful request or of one that    *)
(* ran beside it, however many requests and workers race for the row.        *)
THEOREM SaveKept == Spec => []LastSaveIsKept
<1>1. SaveInv => LastSaveIsKept
  BY DEF SaveInv
<1> QED BY <1>1, SaveInvariant, PTL
=============================================================================
