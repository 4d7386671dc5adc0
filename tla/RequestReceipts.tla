-------------------------- MODULE RequestReceipts --------------------------
(***************************************************************************)
(* How a signed Runner request takes effect at most once: the client of    *)
(* runner/api_client.py, which repeats a request under the same id, the    *)
(* check of the signature's timestamp, and the receipts that _execute_once *)
(* keeps in the transaction of the operation itself.                       *)
(*                                                                         *)
(* A repetition is signed again, with the clock of the moment, so every    *)
(* copy of a request has its own life: ValidFor ticks, which is            *)
(* RUNNER_CLOCK_SKEW_SECONDS plus what the runner's clock is ahead.  An    *)
(* admitted copy is through after ServeTime ticks: the request timeout of  *)
(* the web worker.  Recovery deletes receipts older than ReceiptTTL.       *)
(***************************************************************************)
EXTENDS Naturals

CONSTANTS
  Request,      \* request ids
  Claims,       \* those that claim a task: not retried, not replayed
  Retries,      \* RUNNER_HTTP_RETRIES
  TryTime,      \* one try of the client: HTTP timeout and back-off
  ValidFor,
  ServeTime,
  ReceiptTTL    \* RUNNER_RECEIPT_TTL_SECONDS

ASSUME RequestAssumption == Claims \subseteq Request
ASSUME TimeAssumption ==
  /\ Retries \in Nat /\ TryTime \in Nat /\ ValidFor \in Nat \ {0}
  /\ ServeTime \in Nat /\ ReceiptTTL \in Nat

\* Not enforced by settings.py, which accepts a TTL of 300 seconds with a clock
\* skew of 300; the defaults (86400 and 60) are far from the bound.
ASSUME ReceiptAssumption ==
  Retries * TryTime + ValidFor + ServeTime <= ReceiptTTL + 1

VARIABLES
  client,    \* [Request -> Call]: what the runner thread that sent it does
  wire,      \* the copies under way
  inside,    \* the copies that passed the signature check
  receipt,   \* [Request -> Receipt]
  effects    \* [Request -> Nat]: how often the operation was committed

vars == <<client, wire, inside, receipt, effects>>

Try == 1..(Retries + 1)
Call == [at : {"idle", "waiting", "done", "failed"},
         try : Try \union {0}, left : 0..TryTime]

\* by is the try whose transaction inserted the row; "open" is uncommitted.
Receipt == [state : {"none", "open", "stored"}, by : Try \union {0},
            age : 0..(ReceiptTTL + 1)]
NoReceipt == [state |-> "none", by |-> 0, age |-> 0]

Wired  == [req : Request, try : Try, left : 0..ValidFor]
Served == [req : Request, try : Try, left : 0..ServeTime]

-----------------------------------------------------------------------------
(* The client: _post *)

Signed(q, n) == [req |-> q, try |-> n, left |-> ValidFor]

StartCall(q) ==
  /\ client[q].at = "idle"
  /\ client' = [client EXCEPT ![q] = [at |-> "waiting", try |-> 1, left |-> TryTime]]
  /\ wire' = wire \union {Signed(q, 1)}
  /\ UNCHANGED <<inside, receipt, effects>>

\* No answer, or a 5xx: the same id and body once more, under a new timestamp.
RepeatCall(q) ==
  /\ client[q].at = "waiting"
  /\ q \notin Claims /\ client[q].try <= Retries
  /\ client' = [client EXCEPT ![q].try = @ + 1, ![q].left = TryTime]
  /\ wire' = wire \union {Signed(q, client[q].try + 1)}
  /\ UNCHANGED <<inside, receipt, effects>>

GiveUp(q) ==
  /\ client[q].at = "waiting"
  /\ q \in Claims \/ client[q].try = Retries + 1
  /\ client' = [client EXCEPT ![q].at = "failed"]
  /\ UNCHANGED <<wire, inside, receipt, effects>>

\* The answer to copy c: it reaches its sender, if that still waits for it, or
\* is lost.
Answer(c, outcome) ==
  \/ /\ client[c.req].at = "waiting" /\ client[c.req].try = c.try
     /\ client' = [client EXCEPT ![c.req].at = outcome]
  \/ UNCHANGED client

-----------------------------------------------------------------------------
(* The web process: authenticate_runner_request and _execute_once *)

LoseCopy(c) ==
  /\ c \in wire
  /\ wire' = wire \ {c}
  /\ UNCHANGED <<client, inside, receipt, effects>>

Admit(c) ==
  /\ c \in wire /\ c.left > 0
  /\ wire' = wire \ {c}
  /\ inside' = inside \union {[c EXCEPT !.left = ServeTime]}
  /\ UNCHANGED <<client, receipt, effects>>

\* The timestamp is too old: 401.
RejectExpired(c) ==
  /\ c \in wire /\ c.left = 0
  /\ wire' = wire \ {c}
  /\ Answer(c, "failed")
  /\ UNCHANGED <<inside, receipt, effects>>

\* The insert of the receipt; it waits for an uncommitted row of the same id.
InsertReceipt(c) ==
  /\ c \in inside
  /\ receipt[c.req].state = "none"
  /\ receipt' = [receipt EXCEPT ![c.req] = [state |-> "open", by |-> c.try, age |-> 0]]
  /\ UNCHANGED <<client, wire, inside, effects>>

Opened(c) ==
  c \in inside /\ receipt[c.req].state = "open" /\ receipt[c.req].by = c.try

\* The operation and its receipt are committed together.
CommitEffect(c) ==
  /\ Opened(c)
  /\ effects' = [effects EXCEPT ![c.req] = @ + 1]
  /\ receipt' = [receipt EXCEPT ![c.req].state = "stored"]
  /\ inside' = inside \ {c}
  /\ Answer(c, "done")
  /\ UNCHANGED wire

\* The operation raises QueueError, or the web process dies: neither stays.
RollBack(c) ==
  /\ Opened(c)
  /\ receipt' = [receipt EXCEPT ![c.req] = NoReceipt]
  /\ inside' = inside \ {c}
  /\ Answer(c, "failed")
  /\ UNCHANGED <<wire, effects>>

\* Faulty: an uncommitted receipt answers too.
ReplayUncommitted(c) ==
  /\ c \in inside
  /\ receipt[c.req].state # "none"
  /\ inside' = inside \ {c}
  /\ Answer(c, IF c.req \in Claims THEN "failed" ELSE "done")
  /\ UNCHANGED <<wire, receipt, effects>>

\* The receipt is there: its stored answer, or a 409 for a claim.
ReplayAnswer(c) ==
  /\ c \in inside
  /\ receipt[c.req].state = "stored"
  /\ inside' = inside \ {c}
  /\ Answer(c, IF c.req \in Claims THEN "failed" ELSE "done")
  /\ UNCHANGED <<wire, receipt, effects>>

\* Faulty: the age of a receipt is not looked at.
PruneAll ==
  /\ receipt' = [q \in Request |->
       IF receipt[q].state = "stored" THEN NoReceipt ELSE receipt[q]]
  /\ UNCHANGED <<client, wire, inside, effects>>

\* The first statement of recover_expired_tasks.
PruneReceipts ==
  /\ receipt' = [q \in Request |->
       IF receipt[q].state = "stored" /\ receipt[q].age > ReceiptTTL
       THEN NoReceipt ELSE receipt[q]]
  /\ UNCHANGED <<client, wire, inside, effects>>

-----------------------------------------------------------------------------

Aged(S) == {[c EXCEPT !.left = c.left - 1] : c \in {d \in S : d.left > 0}}
              \union {c \in S : c.left = 0}

\* Nobody outstays the time it was given.
Tick ==
  /\ \A q \in Request : client[q].at = "waiting" => client[q].left > 0
  /\ \A c \in inside : c.left > 0
  /\ client' = [q \in Request |-> IF client[q].at = "waiting"
                                  THEN [client[q] EXCEPT !.left = @ - 1] ELSE client[q]]
  /\ wire' = Aged(wire)
  /\ inside' = Aged(inside)
  /\ receipt' = [q \in Request |->
       IF receipt[q].state # "none" /\ receipt[q].age <= ReceiptTTL
       THEN [receipt[q] EXCEPT !.age = @ + 1] ELSE receipt[q]]
  /\ UNCHANGED effects

Init ==
  /\ client = [q \in Request |-> [at |-> "idle", try |-> 0, left |-> 0]]
  /\ wire = {}
  /\ inside = {}
  /\ receipt = [q \in Request |-> NoReceipt]
  /\ effects = [q \in Request |-> 0]

Next ==
  \/ \E q \in Request : StartCall(q) \/ RepeatCall(q) \/ GiveUp(q)
  \/ \E c \in wire : LoseCopy(c) \/ Admit(c) \/ RejectExpired(c)
  \/ \E c \in inside : \/ InsertReceipt(c) \/ CommitEffect(c) 
                       \/ RollBack(c) \/ ReplayAnswer(c)
  \/ PruneReceipts
  \/ Tick

Spec == Init /\ [][Next]_vars

-----------------------------------------------------------------------------
(* Properties *)

\* Calls, copies and receipts have their shape.
TypeOK ==
  /\ client \in [Request -> Call]
  /\ wire \subseteq Wired
  /\ inside \subseteq Served
  /\ receipt \in [Request -> Receipt]
  /\ effects \in [Request -> Nat]

\* A request takes effect at most once, although its copies are signed anew,
\* arrive late and in any order, and receipts are deleted in the end.
AtMostOnce == \A q \in Request : effects[q] <= 1

\* A caller that was told its request succeeded knows what was committed.
ToldTheTruth == \A q \in Request : client[q].at = "done" => effects[q] = 1

\* While a copy of a request that took effect can still be served, its receipt
\* is there to stop it.
ReceiptOutlivesCopies ==
  \A q \in Request : effects[q] > 0 =>
    \/ receipt[q].state = "stored"
    \/ /\ \A c \in inside : c.req # q
       /\ \A c \in wire : c.req = q => c.left = 0
       /\ client[q].at # "waiting" \/ client[q].try = Retries + 1 \/ q \in Claims

\* A request that was not sent has no copies, no receipt and no effect; one whose
\* receipt is stored has taken effect.
EffectsKnown ==
  \A q \in Request :
    /\ client[q].at = "idle" =>
         /\ effects[q] = 0 /\ receipt[q] = NoReceipt
         /\ \A c \in wire \union inside : c.req # q
    /\ receipt[q].state = "stored" => effects[q] = 1

\* The call may still send another copy.
MayRepeat(q) ==
  client[q].at = "waiting" /\ q \notin Claims /\ client[q].try <= Retries

\* Why the receipt outlives them: what is left of the life of any copy, sent or
\* still to be sent, fits into what is left of the life of the receipt.
CopiesInTime ==
  \A q \in Request :
    /\ \A c \in inside : c.req = q => receipt[q].age + c.left <= ReceiptTTL
    /\ \A c \in wire : c.req = q /\ c.left > 0 =>
         receipt[q].age + c.left + ServeTime <= ReceiptTTL + 1
    /\ MayRepeat(q) =>
         receipt[q].age + client[q].left + (Retries - client[q].try) * TryTime
           + ValidFor + ServeTime <= ReceiptTTL + 1

\* What rules a second effect out, and the inductive invariant of the receipts:
\* calls, copies and receipts have their shape, and a receipt is there as long
\* as a copy may arrive.
ReceiptsInv == TypeOK /\ ReceiptOutlivesCopies /\ EffectsKnown /\ CopiesInTime
=============================================================================
