--------------------------- MODULE MerchantPolicy ---------------------------
(***************************************************************************)
(* The policy of the merchant: requests of the policy endpoint save it in  *)
(* the merchant's row, which they insert when it is missing, as do the     *)
(* workers that open the first recovery cases.  Whoever inserts second is  *)
(* refused by the primary key, after waiting for the first transaction.    *)
(* A session writes the policy only if it differs from the one it loaded.  *)
(***************************************************************************)
EXTENDS PolicyEngine, Integers

CONSTANTS
    Updates,    \* policies a client may submit
    Clients,    \* concurrent requests of the endpoint
    Workers,    \* workers opening recovery cases
    Amounts,    \* amounts of the failed payments
    Configured  \* are MERCHANT_ID and MERCHANT_NAME set?

ASSUME PolicyAssumption ==
    /\ Updates \subseteq [max_auto_action_amount_minor : Int,
                          max_recovery_actions_per_case : Int,
                          max_payment_links_per_case : Int,
                          confidence_below : Int]
    /\ Amounts \subseteq Nat
    /\ Configured \in BOOLEAN
    /\ Clients \cap Workers = {}

ValidUnbounded(u) ==    \* mutant: the upper bounds of the counts are missing
    /\ u.max_auto_action_amount_minor >= 0
    /\ u.max_recovery_actions_per_case >= 0
    /\ u.max_payment_links_per_case >= 0
    /\ u.confidence_below \in Percent

(* PolicyUpdate: the bounds of its fields (confidences are percentages). *)
Valid(u) ==
    /\ u.max_auto_action_amount_minor >= 0
    /\ u.max_recovery_actions_per_case \in 0 .. 10
    /\ u.max_payment_links_per_case \in 0 .. 5
    /\ u.confidence_below \in Percent

(* The rows of the merchant: at most one, with at most one saved policy. *)
Absent   == {}
Empty    == {{}}
Saved(u) == {{u}}

VARIABLES
    merchant,   \* the committed merchants row
    client,     \* the requests of the endpoint
    worker,     \* the workers
    conflicts,  \* inserts of the merchant refused to each of them
    last        \* the policies that may rightly be the saved one

vars == <<merchant, client, worker, conflicts, last>>

NoRequest == [pc |-> "idle", update |-> "none", loaded |-> Absent, overlaps |-> {}]
NoTask    == [pc |-> "idle", amount |-> 0, allowed |-> FALSE]

Saving(c) == client[c].pc \in {"load", "commit"}

MerchantRow  == {Absent, Empty} \cup {Saved(u) : u \in Updates}
RequestState ==
    [pc : {"load", "commit"}, update : {u \in Updates : Valid(u)}, loaded : MerchantRow,
     overlaps : SUBSET Updates]
WorkerState  ==
    [pc : {"idle", "lookup", "insert", "decide", "decided"}, amount : Amounts \cup {0},
     allowed : BOOLEAN]

TypeOK ==
    /\ merchant \in MerchantRow
    /\ \A row \in merchant : \A u \in row :
          u.max_recovery_actions_per_case <= 10 /\ u.max_payment_links_per_case <= 5
    /\ client = [c \in Clients |-> client[c]]
    /\ \A c \in Clients :
          IF Saving(c) THEN client[c] \in RequestState ELSE client[c] = NoRequest
    /\ worker \in [Workers -> WorkerState]
    /\ conflicts \in [Clients \cup Workers -> Nat]
    /\ last \subseteq Updates

Init ==
    /\ merchant = Absent
    /\ client = [c \in Clients |-> NoRequest]
    /\ worker = [w \in Workers |-> NoTask]
    /\ conflicts = [x \in Clients \cup Workers |-> 0]
    /\ last = {}

(* A worker has inserted the merchant and not yet committed. *)
Inserting == \E w \in Workers : worker[w].pc = "decide" /\ merchant = Absent
-----------------------------------------------------------------------------
(* PUT /policy *)

(* A request arrives (others are refused with 422); the requests it runs   *)
(* beside take note of each other.                                         *)
Request(c, u) ==
    /\ ~Saving(c)
    /\ Valid(u) /\ Configured
    /\ client' = [d \in Clients |->
          IF d = c THEN [pc |-> "load", update |-> u, loaded |-> Absent,
                         overlaps |-> {client[x].update : x \in {y \in Clients : Saving(y)}}]
          ELSE IF Saving(d) THEN [client[d] EXCEPT !.overlaps = @ \cup {u}]
          ELSE client[d]]
    /\ UNCHANGED <<merchant, worker, conflicts, last>>

Load(c) ==
    /\ client[c].pc = "load"
    /\ client' = [client EXCEPT ![c].pc = "commit", ![c].loaded = merchant]
    /\ UNCHANGED <<merchant, worker, conflicts, last>>

Save(c) ==
    LET update == Saved(client[c].update)
    IN  /\ client[c].pc = "commit"
        /\ client[c].loaded = Absent => merchant = Absent /\ ~Inserting
        /\ merchant' = IF update = client[c].loaded THEN merchant ELSE update
        /\ client' = [client EXCEPT ![c] = NoRequest]
        /\ last' = {client[c].update} \cup client[c].overlaps
        /\ UNCHANGED <<worker, conflicts>>

(* The insert of the merchant is refused: the request fails with 500. *)
SaveConflicts(c) ==
    /\ client[c].pc = "commit"
    /\ client[c].loaded = Absent
    /\ merchant # Absent
    /\ client' = [client EXCEPT ![c] = NoRequest]
    /\ conflicts' = [conflicts EXCEPT ![c] = @ + 1]
    /\ UNCHANGED <<merchant, worker, last>>
-----------------------------------------------------------------------------
(* create_or_process_failed_payment, as far as the merchant is concerned. *)

(* Without MERCHANT_ID and MERCHANT_NAME every task raises at once. *)
Task(w, amount) ==
    /\ Configured
    /\ worker[w].pc \in {"idle", "decided"}
    /\ worker' = [worker EXCEPT ![w] = [pc |-> "lookup", amount |-> amount, allowed |-> FALSE]]
    /\ UNCHANGED <<merchant, client, conflicts, last>>

Lookup(w) ==
    /\ worker[w].pc = "lookup"
    /\ worker' = [worker EXCEPT ![w].pc = IF merchant = Absent THEN "insert" ELSE "decide"]
    /\ UNCHANGED <<merchant, client, conflicts, last>>

Insert(w) ==
    /\ worker[w].pc = "insert"
    /\ merchant = Absent /\ ~Inserting
    /\ worker' = [worker EXCEPT ![w].pc = "decide"]
    /\ UNCHANGED <<merchant, client, conflicts, last>>

RetryInsert(w) ==       \* mutant: the insert is tried again without a new lookup
    /\ worker[w].pc = "insert"
    /\ merchant # Absent
    /\ conflicts[w] < 2
    /\ conflicts' = [conflicts EXCEPT ![w] = @ + 1]
    /\ UNCHANGED <<merchant, client, worker, last>>

(* The task is retried from its beginning. *)
InsertConflicts(w) ==
    /\ worker[w].pc = "insert"
    /\ merchant # Absent
    /\ worker' = [worker EXCEPT ![w].pc = "lookup"]
    /\ conflicts' = [conflicts EXCEPT ![w] = @ + 1]
    /\ UNCHANGED <<merchant, client, last>>

(* What the worker's commit makes of the merchant's row. *)
MergedMerchant == Empty     \* mutant: session.merge() for session.add()
CommittedMerchant == IF merchant = Absent THEN Empty ELSE merchant

Facts(amount) ==
    [state |-> "ACTION_PROPOSED", already_paid |-> FALSE, disputed |-> FALSE,
     amount_minor |-> amount, previous_attempts |-> 0,
     failure_category |-> "AUTHORIZATION_FAILURE", case_type |-> "PAYMENT_FAILURE"]
FirstTimer == [opted_out |-> FALSE, prior_success_count |-> 4]

Allows(policy, amount) ==
    Evaluate(Facts(amount), FirstTimer, DeterministicRecommendation(Facts(amount), FirstTimer),
             policy, 0, FALSE)

(* evaluate is called without a policy. *)
Decide(w) ==
    /\ worker[w].pc = "decide"
    /\ merchant' = CommittedMerchant
    /\ worker' = [worker EXCEPT ![w].pc = "decided",
                                ![w].allowed = Allows(DefaultPolicy, worker[w].amount)]
    /\ UNCHANGED <<client, conflicts, last>>

(* The worker dies or its database fails: its insert is rolled back. *)
Interrupted(w) ==
    /\ worker[w].pc \in {"lookup", "insert", "decide"}
    /\ worker' = [worker EXCEPT ![w] = NoTask]
    /\ UNCHANGED <<merchant, client, conflicts, last>>

Next ==
    \/ \E c \in Clients :
          \/ \E u \in Updates : Request(c, u)
          \/ Load(c) \/ Save(c) \/ SaveConflicts(c)
    \/ \E w \in Workers :
          \/ \E amount \in Amounts : Task(w, amount)
          \/ Lookup(w) \/ Insert(w) \/ InsertConflicts(w) \/ Decide(w)
          \/ Interrupted(w)

Spec == Init /\ [][Next]_vars
-----------------------------------------------------------------------------
(* The policy endpoint is a register: the saved policy is that of the last  *)
(* request that was answered with success, or of one that ran beside it,    *)
(* whatever the workers do to the same row in between.                      *)
LastSaveIsKept == last # {} => merchant \in {Saved(u) : u \in last}

(* The race for the merchant's row costs everyone at most one attempt: one  *)
(* of the five retries of a task, one failed request that may be repeated.  *)
OneConflictEach == \A x \in Clients \cup Workers : conflicts[x] <= 1
-----------------------------------------------------------------------------
(* A statement of the console that the code does not keep. *)

(* The merchant's controls are saved to apply: no case is authorized that   *)
(* the saved policy, shown by GET /policy, does not allow.                  *)
Shown == IF merchant \in {Absent, Empty} THEN DefaultPolicy
         ELSE CHOOSE u \in Updates : merchant = Saved(u)

SavedPolicyDecides ==
    [][\A w \in Workers :
          worker[w].pc = "decide" /\ worker'[w].pc = "decided" /\ worker'[w].allowed
              => Allows(Shown, worker[w].amount)]_vars
=============================================================================
