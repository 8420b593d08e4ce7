--------------------------- MODULE DownloadClaim ---------------------------
(***************************************************************************)
(* How the daemon makes one download of a key out of many: requests for it *)
(* share a flight (KeyedSingleflight), and the flight's leader competes    *)
(* with prefetch tasks for the download claim of the key. Both release by  *)
(* removing a map entry and waking the tasks parked on its Notify.         *)
(*                                                                         *)
(* One key; the maps' other keys only matter for contention, which is a    *)
(* free choice. Local publications of the key are left to module Store.    *)
(***************************************************************************)
EXTENDS Naturals, FiniteSets

CONSTANTS
    Request,    \* RemoteCheck requests for the key
    Prefetch,   \* prefetch items for the key
    Packed,     \* batches of packed entries that hold the key
    Flight,     \* Flight objects
    Gen,        \* Notify objects of the download claim, one per generation
    None,
    Setups      \* the tasks that meet, and whether requests have a deadline

Task == Request \cup Prefetch \cup Packed

ASSUME ClaimAssumption ==
    /\ Request \cap Prefetch = {} /\ Request \cap Packed = {} /\ Prefetch \cap Packed = {}
    /\ Flight \cap Gen = {} /\ None \notin Flight \cup Gen
    /\ Setups \subseteq [tasks : SUBSET Task, deadlines : BOOLEAN]
    /\ IsFiniteSet(Task) /\ IsFiniteSet(Flight) /\ IsFiniteSet(Gen)
    /\ Cardinality(Flight) > Cardinality(Request)      \* there is always a new Arc
    /\ Cardinality(Gen) > Cardinality(Task) + 2

VARIABLES
    flight,     \* the flight in remote_checks, or None
    outcome,    \* what a flight's leader published: "open", "found", "miss", "dropped"
    claim,      \* the Notify in the downloading map, or None
    meta,       \* meta.json is in the entry directory
    row,        \* the entry is committed in the store
    spawned,    \* the Notify whose removal was handed to the runtime, or None
    waking,     \* the Notify such a removal took off the map, before its broadcast
    pc,         \* where each task is
    mine,       \* the flight a request leads or follows
    gen,        \* the Notify a task holds
    reg,        \* the Notify or Flight a request is registered with
    late,       \* the wait of a request ran into its deadline
    re,         \* the claim was won after a wait
    ans,        \* the answer of a request
    setup       \* who meets whom, chosen once

vars == <<flight, outcome, claim, meta, row, spawned, waking, pc, mine, gen, reg, late, re, ans,
          setup>>

Deadlines == setup.deadlines

flights == <<flight, outcome, mine>>
claims == <<claim, spawned, waking, gen, late, re>>
entry == <<meta, row>>

-----------------------------------------------------------------------------
Goto(p, l) == pc' = [pc EXCEPT ![p] = l]

Idle(p) == CASE p \in Request -> "ask" [] p \in Prefetch -> "look" [] OTHER -> "peek"

\* A new Arc: one that nobody holds any more, no matter which.
NewFlight == CHOOSE f \in Flight : f # flight /\ \A r \in Request : mine[r] # f
NewGen ==
    CHOOSE g \in Gen :
        g \notin {claim, spawned, waking} /\ \A p \in Task : gen[p] # g

\* Tasks that own the claim.
Holding == {"held", "clear", "rename", "import", "release"}
Holders == {p \in Task : pc[p] \in Holding}

Init ==
    /\ setup \in Setups
    /\ flight = None /\ claim = None /\ spawned = None /\ waking = None
    /\ outcome = [f \in Flight |-> "open"]
    /\ meta = FALSE /\ row = FALSE
    /\ pc = [p \in Task |-> Idle(p)]
    /\ mine = [r \in Request |-> None]
    /\ gen = [p \in Task |-> None]
    /\ reg = [r \in Request |-> None]
    /\ late = [r \in Request |-> FALSE]
    /\ re = [p \in Task |-> FALSE]
    /\ ans = [r \in Request |-> "none"]

\* notify_waiters wakes who is registered; a woken future is ready at once.
Broadcast(n) == reg' = [r \in Request |-> IF reg[r] = n THEN None ELSE reg[r]]

-----------------------------------------------------------------------------
(* KeyedSingleflight.                                                      *)

\* Follow the flight there is, lead a new one, or give up at capacity.
Ask(r) ==
    /\ pc[r] = "ask"
    /\ \/ /\ flight # None
          /\ mine' = [mine EXCEPT ![r] = flight]
          /\ Goto(r, "enable")
          /\ UNCHANGED <<flight, outcome, ans>>
       \/ /\ flight = None
          /\ flight' = NewFlight
          /\ outcome' = [outcome EXCEPT ![NewFlight] = "open"]
          /\ mine' = [mine EXCEPT ![r] = NewFlight]
          /\ Goto(r, "claim")
          /\ UNCHANGED ans
       \/ /\ flight = None
          /\ Goto(r, "done") /\ ans' = [ans EXCEPT ![r] = "miss"]
          /\ UNCHANGED <<flight, outcome, mine>>
    /\ UNCHANGED <<claims, entry, reg, setup>>

FollowerEnable(r) ==
    /\ pc[r] = "enable"
    /\ reg' = [reg EXCEPT ![r] = mine[r]]
    /\ Goto(r, "finished?")
    /\ UNCHANGED <<flights, claims, entry, ans, setup>>

\* A leader that dropped its flight without publishing leaves a miss.
Follow(r) ==
    /\ ans' = [ans EXCEPT ![r] = IF outcome[mine[r]] = "found" THEN "found" ELSE "miss"]
    /\ mine' = [mine EXCEPT ![r] = None]
    /\ reg' = [reg EXCEPT ![r] = None]
    /\ Goto(r, "done")

FollowerCheck(r) ==
    /\ pc[r] = "finished?"
    /\ IF outcome[mine[r]] # "open"
       THEN Follow(r)
       ELSE Goto(r, "parked") /\ UNCHANGED <<ans, mine, reg>>
    /\ UNCHANGED <<flight, outcome, claims, entry, setup>>

FollowerWoken(r) ==
    /\ pc[r] = "parked" /\ reg[r] = None
    /\ Follow(r)
    /\ UNCHANGED <<flight, outcome, claims, entry, setup>>

FollowerTimeout(r) ==
    /\ Deadlines /\ pc[r] = "parked"
    /\ ans' = [ans EXCEPT ![r] = "miss"]
    /\ mine' = [mine EXCEPT ![r] = None]
    /\ reg' = [reg EXCEPT ![r] = None]
    /\ Goto(r, "done")
    /\ UNCHANGED <<flight, outcome, claims, entry, setup>>

\* Mutant: takes the flight off the map before it is marked finished.
CompleteLast(r) ==
    /\ pc[r] = "complete"
    /\ outcome' = outcome
    /\ Goto(r, "unlist")
    /\ UNCHANGED <<flight, mine, claims, entry, reg, ans, setup>>

\* complete, or the drop of a leader that was cancelled ...
Complete(r) ==
    /\ pc[r] = "complete"
    /\ outcome' = [outcome EXCEPT ![mine[r]] = IF ans[r] = "none" THEN "dropped" ELSE ans[r]]
    /\ Goto(r, "unlist")
    /\ UNCHANGED <<flight, mine, claims, entry, reg, ans, setup>>

\* ... and release: off the map, then wake the followers.
Unlist(r) ==
    /\ pc[r] = "unlist"
    /\ flight' = IF flight = mine[r] THEN None ELSE flight
    /\ Goto(r, "wake")
    /\ UNCHANGED <<outcome, mine, claims, entry, reg, ans, setup>>

Wake(r) ==
    /\ pc[r] = "wake"
    /\ Broadcast(mine[r])
    /\ mine' = [mine EXCEPT ![r] = None]
    /\ ans' = [ans EXCEPT ![r] = IF @ = "none" THEN "miss" ELSE @]
    /\ Goto(r, "done")
    /\ UNCHANGED <<flight, outcome, claims, entry, setup>>

-----------------------------------------------------------------------------
(* claim_download and join_inflight_download.                              *)

\* Mutant: inserts over the claim of another task.
ClaimedOver(p) ==
    /\ claim' = NewGen
    /\ gen' = [gen EXCEPT ![p] = NewGen]
    /\ Goto(p, "held")

\* Insert-if-absent: the claim, or the Notify of the task that has it.
Claimed(p) ==
    /\ claim = None
    /\ claim' = NewGen
    /\ gen' = [gen EXCEPT ![p] = NewGen]
    /\ Goto(p, "held")

Claim(r) ==
    /\ pc[r] = "claim"
    /\ \/ Claimed(r)
       \/ /\ claim # None
          /\ gen' = [gen EXCEPT ![r] = claim]
          /\ Goto(r, "register")
          /\ UNCHANGED claim
    /\ re' = [re EXCEPT ![r] = FALSE]
    /\ late' = [late EXCEPT ![r] = FALSE]
    /\ UNCHANGED <<flights, spawned, waking, entry, reg, ans, setup>>

\* The leader's earlier stages answer without a download: a remembered miss,
\* an authoritative index, a backend that cannot be reached.
AnswerEarly(r) ==
    /\ pc[r] = "claim"
    /\ ans' = [ans EXCEPT ![r] = "miss"]
    /\ Goto(r, "complete")
    /\ UNCHANGED <<flights, claims, entry, reg, setup>>

\* enable(), before the map is looked at again.
Register(r) ==
    /\ pc[r] = "register"
    /\ reg' = [reg EXCEPT ![r] = gen[r]]
    /\ Goto(r, "same?")
    /\ UNCHANGED <<flights, claims, entry, ans, setup>>

\* Mutant: any claim in the map is worth waiting for.
PresentCheck(r) ==
    /\ pc[r] = "same?"
    /\ Goto(r, IF claim = None THEN "meta?" ELSE "waiting")
    /\ UNCHANGED <<flights, claims, reg, entry, ans, setup>>

\* Wait for the same generation only; adopt a newer one.
SameCheck(r) ==
    /\ pc[r] = "same?"
    /\ \/ /\ claim = gen[r]
          /\ Goto(r, "waiting")
          /\ UNCHANGED <<gen, reg, late>>
       \/ /\ claim = None
          /\ Goto(r, "meta?")
          /\ reg' = [reg EXCEPT ![r] = None]
          /\ UNCHANGED <<gen, late>>
       \/ /\ claim \notin {None, gen[r]}
          /\ reg' = [reg EXCEPT ![r] = None]
          /\ \/ /\ gen' = [gen EXCEPT ![r] = claim]
                /\ Goto(r, "register")
                /\ UNCHANGED late
             \/ /\ Deadlines
                /\ late' = [late EXCEPT ![r] = TRUE]
                /\ Goto(r, "meta?")
                /\ UNCHANGED gen
    /\ UNCHANGED <<flights, claim, spawned, waking, re, entry, ans, setup>>

WaitEnds(r) ==
    /\ pc[r] = "waiting"
    /\ \/ reg[r] = None /\ UNCHANGED late
       \/ Deadlines /\ late' = [late EXCEPT ![r] = TRUE]
    /\ reg' = [reg EXCEPT ![r] = None]
    /\ Goto(r, "meta?")
    /\ UNCHANGED <<flights, claim, spawned, waking, gen, re, entry, ans, setup>>

\* meta.json is a hint; only a committed row is a hit.
MetaCheck(r) ==
    /\ pc[r] = "meta?"
    /\ Goto(r, IF meta THEN "committed?" ELSE "reclaim")
    /\ UNCHANGED <<flights, claims, entry, reg, ans, setup>>

CommittedCheck(r) ==
    /\ pc[r] = "committed?"
    /\ ans' = [ans EXCEPT ![r] = IF row THEN "found" ELSE "miss"]
    /\ gen' = [gen EXCEPT ![r] = None]
    /\ Goto(r, "complete")
    /\ UNCHANGED <<flights, claim, spawned, waking, late, re, entry, reg, setup>>

Reclaim(r) ==
    /\ pc[r] = "reclaim"
    /\ \/ /\ Claimed(r)
          /\ re' = [re EXCEPT ![r] = TRUE]
          /\ UNCHANGED ans
       \/ /\ claim # None
          /\ IF late[r]
             THEN /\ ans' = [ans EXCEPT ![r] = "miss"]
                  /\ gen' = [gen EXCEPT ![r] = None]
                  /\ Goto(r, "complete")
             ELSE /\ gen' = [gen EXCEPT ![r] = claim]
                  /\ Goto(r, "register")
                  /\ UNCHANGED ans
          /\ UNCHANGED <<claim, re>>
    /\ UNCHANGED <<flights, spawned, waking, late, entry, reg, setup>>

-----------------------------------------------------------------------------
(* The owner of the claim.                                                 *)

\* A prefetch item whose entry directory is there drops out.
Look(p) ==
    /\ pc[p] = "look"
    /\ Goto(p, IF meta THEN "done" ELSE "wanted")
    /\ UNCHANGED <<flights, claims, entry, reg, ans, setup>>

\* It waits for the gate and the remote's semaphore and claims last. It drops out
\* too when the breaker, a gate or the deadline stops it, or the key is claimed.
PrefetchClaim(p) ==
    /\ pc[p] = "wanted"
    /\ \/ Goto(p, "done") /\ UNCHANGED <<claim, gen>>
       \/ Claimed(p)
    /\ UNCHANGED <<flights, spawned, waking, late, re, entry, reg, ans, setup>>

\* try_claim_packed_download: the directory is looked at before the claim.
Peek(p) ==
    /\ pc[p] = "peek"
    /\ Goto(p, IF meta THEN "done" ELSE "packed")
    /\ UNCHANGED <<flights, claims, entry, reg, ans, setup>>

PackedClaim(p) ==
    /\ pc[p] = "packed"
    /\ \/ claim # None /\ Goto(p, "done") /\ UNCHANGED <<claim, gen>>
       \/ Claimed(p)
    /\ UNCHANGED <<flights, spawned, waking, late, re, entry, reg, ans, setup>>

Answer(p, a) == ans' = IF p \in Request THEN [ans EXCEPT ![p] = a] ELSE ans

\* Mutant: a re-won claim is as good as the first one.
HeldUnchecked(p) ==
    /\ pc[p] = "held"
    /\ \/ Goto(p, "clear") /\ UNCHANGED ans
       \/ Goto(p, "release") /\ Answer(p, "miss")
    /\ UNCHANGED <<flights, claims, entry, reg, setup>>

\* Mutant: a prefetch relies on its look before the claim.
HeldOnFirstLook(p) ==
    /\ pc[p] = "held"
    /\ IF p \in Request /\ re[p] /\ row
       THEN Goto(p, "release") /\ Answer(p, "found")
       ELSE \/ Goto(p, "clear") /\ UNCHANGED ans
            \/ Goto(p, "release") /\ Answer(p, "miss")
    /\ UNCHANGED <<flights, claims, entry, reg, setup>>

\* Under the claim a prefetch looks at the directory again, and a request that
\* re-won the claim at the store; the download may also be suppressed.
Held(p) ==
    /\ pc[p] = "held"
    /\ IF (p \in Prefetch /\ meta) \/ (p \in Request /\ re[p] /\ row)
       THEN Goto(p, "release") /\ Answer(p, "found")
       ELSE \/ Goto(p, "clear") /\ UNCHANGED ans
            \/ Goto(p, "release") /\ Answer(p, "miss")
    /\ UNCHANGED <<flights, claims, entry, reg, setup>>

\* The extraction removes what is at the entry directory ...
Clear(p) ==
    /\ pc[p] = "clear"
    /\ meta' = FALSE
    /\ Goto(p, "rename")
    /\ UNCHANGED <<flights, claims, row, reg, ans, setup>>

\* ... and renames the downloaded one onto it; the import registers it. Each
\* may fail. A packed batch that fails removes what it left behind.
Rename(p) ==
    /\ pc[p] = "rename"
    /\ \/ meta' = TRUE /\ Goto(p, "import") /\ UNCHANGED ans
       \/ Goto(p, "release") /\ Answer(p, "miss") /\ UNCHANGED meta
    /\ UNCHANGED <<flights, claims, row, reg, setup>>

Import(p) ==
    /\ pc[p] = "import"
    /\ \/ row' = TRUE /\ Answer(p, "found") /\ UNCHANGED meta
       \/ /\ Answer(p, "miss")
          /\ meta' = (meta /\ (p \notin Packed \/ row))
          /\ UNCHANGED row
    /\ Goto(p, "release")
    /\ UNCHANGED <<flights, claims, reg, setup>>

AfterRelease(p) == IF p \in Request THEN "complete" ELSE "done"

\* Drop of the DownloadingGuard: remove the claim at once, or hand that to the
\* runtime if the map's lock is contended (one such release at a time) ...
Release(p) ==
    /\ pc[p] = "release"
    /\ re' = [re EXCEPT ![p] = FALSE]
    /\ \/ claim' = None /\ Goto(p, "notify") /\ UNCHANGED <<spawned, gen>>
       \/ /\ waking = None
          /\ spawned' = gen[p]
          /\ gen' = [gen EXCEPT ![p] = None]
          /\ Goto(p, AfterRelease(p))
          /\ UNCHANGED claim
    /\ UNCHANGED <<flights, waking, late, entry, reg, ans, setup>>

\* ... and wake the tasks parked on its Notify, once the removal is visible.
NotifyWaiters(p) ==
    /\ pc[p] = "notify"
    /\ Broadcast(gen[p])
    /\ gen' = [gen EXCEPT ![p] = None]
    /\ Goto(p, AfterRelease(p))
    /\ UNCHANGED <<flights, claim, spawned, waking, late, re, entry, ans, setup>>

\* The spawned task removes the key, whoever put it there.
SpawnedRemove ==
    /\ spawned # None
    /\ waking' = claim
    /\ claim' = None /\ spawned' = None
    /\ UNCHANGED <<flights, gen, late, re, entry, reg, pc, ans, setup>>

SpawnedNotify ==
    /\ waking # None
    /\ waking' = None
    /\ Broadcast(waking)
    /\ UNCHANGED <<flights, claim, spawned, gen, late, re, entry, pc, ans, setup>>

-----------------------------------------------------------------------------
\* A cancelled request or prefetch drops its guards in the same order.
Cancel(p) ==
    /\ pc[p] \in (Holding \ {"release"}) \cup {"register", "same?", "waiting", "claim", "reclaim"}
    /\ IF pc[p] \in Holding
       THEN Goto(p, "release") /\ UNCHANGED gen
       ELSE Goto(p, "complete") /\ gen' = [gen EXCEPT ![p] = None]
    /\ reg' = [r \in Request |-> IF r = p THEN None ELSE reg[r]]
    /\ UNCHANGED <<flights, claim, spawned, waking, late, re, entry, ans, setup>>

\* A request cancelled after its import, before its response is out: whoever
\* follows it gets a miss.
CancelLate(r) ==
    /\ pc[r] = "release" /\ ans[r] # "none"
    /\ ans' = [ans EXCEPT ![r] = "none"]
    /\ UNCHANGED <<flights, claims, entry, reg, pc, setup>>

\* The next request for the same key; a prefetch task runs once.
Again(r) ==
    /\ pc[r] = "done"
    /\ Goto(r, "ask")
    /\ ans' = [ans EXCEPT ![r] = "none"]
    /\ UNCHANGED <<flights, claims, entry, reg, setup>>

\* An eviction takes the row and the directory.
Evict ==
    /\ row
    /\ row' = FALSE /\ meta' = FALSE
    /\ UNCHANGED <<flights, claims, reg, pc, ans, setup>>

Step(p) ==
    \/ p \in Request /\ (\/ Ask(p) \/ FollowerEnable(p) \/ FollowerCheck(p) \/ FollowerWoken(p)
                         \/ FollowerTimeout(p) \/ Complete(p) \/ Unlist(p) \/ Wake(p)
                         \/ Claim(p) \/ AnswerEarly(p) \/ Register(p) \/ SameCheck(p)
                         \/ WaitEnds(p) \/ MetaCheck(p) \/ CommittedCheck(p) \/ Reclaim(p))
    \/ Look(p) \/ PrefetchClaim(p) \/ Peek(p) \/ PackedClaim(p)
    \/ Held(p) \/ Clear(p) \/ Rename(p) \/ Import(p) \/ Release(p) \/ NotifyWaiters(p)

Next ==
    \/ \E p \in setup.tasks : Step(p) \/ Cancel(p)
    \/ \E r \in Request \cap setup.tasks : CancelLate(r) \/ Again(r)
    \/ SpawnedRemove \/ SpawnedNotify
    \/ Evict

Spec == Init /\ [][Next]_vars

\* The runtime polls every task that is ready, and downloads end.
Fairness ==
    /\ \A p \in Task : WF_vars(p \in setup.tasks /\ Step(p))
    /\ WF_vars(SpawnedRemove) /\ WF_vars(SpawnedNotify)

FairSpec == Spec /\ Fairness

-----------------------------------------------------------------------------
(* Properties.                                                             *)

PCs == {"ask", "look", "wanted", "peek", "packed", "enable", "finished?", "parked", "claim", "register",
        "same?", "waiting", "meta?", "committed?", "reclaim", "complete", "unlist", "wake",
        "notify", "done"} \cup Holding

TypeOK ==
    /\ setup \in Setups
    /\ flight \in Flight \cup {None} /\ claim \in Gen \cup {None} /\ spawned \in Gen \cup {None}
    /\ outcome \in [Flight -> {"open", "found", "miss", "dropped"}]
    /\ waking \in Gen \cup {None}
    /\ meta \in BOOLEAN /\ row \in BOOLEAN
    /\ pc \in [Task -> PCs]
    /\ mine \in [Request -> Flight \cup {None}]
    /\ gen \in [Task -> Gen \cup {None}]
    /\ reg \in [Request -> Flight \cup Gen \cup {None}]
    /\ late \in [Request -> BOOLEAN] /\ re \in [Task -> BOOLEAN]
    /\ ans \in [Request -> {"none", "found", "miss"}]

\* Leaders of a flight that is still in the map.
Leading == {"claim", "register", "same?", "waiting", "meta?", "committed?", "reclaim",
            "notify", "complete", "unlist"} \cup Holding

\* Every task is where its kind goes, and only a request waits and wins again.
Placed ==
    \A p \in Task :
        /\ p \in Request => pc[p] \notin {"look", "wanted", "peek", "packed"}
        /\ p \in Prefetch => pc[p] \in {"look", "wanted", "notify", "done"} \cup Holding
        /\ p \in Packed => pc[p] \in {"peek", "packed", "notify", "done"} \cup Holding
        /\ re[p] => p \in Request

\* The flight of a leader is the one in the map.
Flying == \A r \in Request : pc[r] \in Leading => mine[r] = flight /\ flight # None

\* Nobody but the owner of the claim publishes what it looked for.
Looked ==
    \A p \in Task : (p \in Prefetch \/ re[p]) /\ pc[p] = "clear" => ~(row /\ meta)

\* "Exactly one task per key is the leader that performs the download": the
\* claim's owner is alone, also while its removal is still to be run by the
\* runtime, and a key has one leading request; with what it takes to see that
\* no step breaks it.
OneWriter ==
    /\ TypeOK /\ Placed /\ Flying /\ Looked
    /\ \A p, q \in Holders : p = q
    /\ \A p \in Holders : claim = gen[p] /\ claim # None /\ spawned = None
    /\ spawned # None => claim = spawned
    /\ \A p, q \in Request : pc[p] \in Leading /\ pc[q] \in Leading => p = q

\* A prefetch, and a request that won the claim after a wait, look again under
\* the claim: neither clears the directory of an entry an earlier download
\* published ("we don't destructively re-download over the freshly published
\* entry"). A packed batch looks only before its claim and is not included.
RecheckedClear ==
    [][\A p \in Task : (p \in Prefetch \/ re[p]) /\ pc[p] = "clear" /\ pc'[p] = "rename" =>
          ~(row /\ meta)]_vars

\* Every request is answered, unless its deadline passed: no wakeup is missed
\* and no follower is stranded by a leader that failed or was cancelled.
Answered ==
    \A r \in Request : r \in setup.tasks /\ pc[r] # "done" ~> pc[r] = "done"
=============================================================================
