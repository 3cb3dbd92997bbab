------------------------------- MODULE RateLimit -------------------------------
(***************************************************************************)
(* The guest rate limits (middleware/guest_rate_limit.go) and the budget of  *)
(* email codes (GuestAccess.spendBudget), which share a store.  A request    *)
(* hits one key after another and stops at the first that is over its limit; *)
(* each hit is atomic under the store's mutex, the request is not.           *)
(***************************************************************************)
EXTENDS Integers, Sequences, FiniteSets

CONSTANTS
  Keys,        \* a scope and client, a client and mailbox, or a mailbox
  Limit,       \* the limit of each
  Paths,       \* the keys a request hits, in order
  Strict,      \* the keys whose store error refuses the request (spendBudget)
  Requests,
  Window,
  SweepAfter,  \* memoryStoreSweepAfter
  Errors,      \* may the store fail (a host's own store may, the memory store not)
  MaxTime,     \* bound of the clock
  MaxHits,     \* bound of the hits of one key
  Nil

RateConstants ==
  /\ Limit \in [Keys -> Nat] /\ Paths \subseteq Seq(Keys) \ {<<>>}
  /\ Strict \subseteq Keys /\ Errors \in BOOLEAN
  /\ Window \in Nat \ {0} /\ SweepAfter \in Nat /\ MaxTime \in Nat /\ MaxHits \in Nat
  /\ Nil \notin Keys

VARIABLES
  windows,   \* MemoryGuestRateLimitStore.windows, the keys that have one
  now,
  left,      \* the keys each request has still to hit; <<>> when it is not running
  admitted,  \* the requests let past each key in its current window
  due        \* the requests let on to a key and not yet counted there

vars == <<windows, now, left, admitted, due>>

Live(k) == k \in DOMAIN windows /\ windows[k].resetAt > now

Init ==
  /\ windows = [k \in {} |-> [count |-> 0, resetAt |-> 0]]
  /\ now = 0
  /\ left = [r \in Requests |-> <<>>]
  /\ admitted = [k \in Keys |-> 0] /\ due = [k \in Keys |-> 0]

-----------------------------------------------------------------------------
\* Fault: when the map is full every window is dropped.
SweepAll == IF Cardinality(DOMAIN windows) >= SweepAfter THEN {} ELSE DOMAIN windows

\* The windows that a hit keeps: once there are many, the expired ones go.
Swept == IF Cardinality(DOMAIN windows) >= SweepAfter
         THEN {k \in DOMAIN windows : windows[k].resetAt > now}
         ELSE DOMAIN windows

\* The window of k after the hit.
HitWindow(k) == IF Live(k) THEN [windows[k] EXCEPT !.count = @ + 1]
                ELSE [count |-> 1, resetAt |-> now + Window]

\* MemoryGuestRateLimitStore.Hit, under its mutex.
Hit(k) == windows' = [j \in Swept \cup {k} |-> IF j = k THEN HitWindow(k) ELSE windows[j]]

\* count > limit: 429, and the keys behind are not hit.
Over(k) == HitWindow(k).count > Limit[k]

Arrive(r) ==
  /\ left[r] = <<>>
  /\ \E path \in Paths : /\ left' = [left EXCEPT ![r] = path]
                         /\ due' = [due EXCEPT ![Head(path)] = @ + 1]
  /\ UNCHANGED <<windows, now, admitted>>

\* The request is done with its key and goes on to the next, if it has one.
GoesOn(r) ==
  LET rest == Tail(left[r])
      counted == [due EXCEPT ![Head(left[r])] = @ - 1]
  IN  /\ left' = [left EXCEPT ![r] = rest]
      /\ due' = IF rest = <<>> THEN counted ELSE [counted EXCEPT ![Head(rest)] = @ + 1]

Refused(r) == /\ left' = [left EXCEPT ![r] = <<>>]
              /\ due' = [due EXCEPT ![Head(left[r])] = @ - 1]

\* The next key of GuestRateLimiter.Allow or spendBudget.
HitNext(r) ==
  /\ left[r] # <<>>
  /\ LET k == Head(left[r])
     IN  /\ HitWindow(k).count <= MaxHits
         /\ Hit(k)
         /\ IF Over(k) THEN Refused(r) /\ UNCHANGED admitted
                       ELSE GoesOn(r) /\ admitted' = [admitted EXCEPT ![k] = @ + 1]
  /\ UNCHANGED now

\* The store fails: a guest limit lets the request on, the code budget does not.
StoreFails(r) ==
  /\ Errors /\ left[r] # <<>>
  /\ IF Head(left[r]) \in Strict THEN Refused(r) ELSE GoesOn(r)
  /\ UNCHANGED <<windows, now, admitted>>

\* Time passes; admitted is that of the current window.
Tick ==
  LET live(k) == k \in DOMAIN windows /\ windows[k].resetAt > now + 1
  IN  /\ now < MaxTime
      /\ now' = now + 1
      /\ admitted' = [k \in Keys |-> IF live(k) THEN admitted[k] ELSE 0]
      /\ UNCHANGED <<windows, left, due>>

Next == Tick \/ \E r \in Requests : Arrive(r) \/ HitNext(r) \/ StoreFails(r)

Spec == Init /\ [][Next]_vars

-----------------------------------------------------------------------------
\* Windows of keys that exist.
TypeOK ==
  /\ DOMAIN windows \subseteq Keys
  /\ \A k \in DOMAIN windows : windows[k] \in [count : 1..MaxHits, resetAt : 1..(MaxTime + Window)]
  /\ now \in 0..MaxTime
  /\ left \in [Requests -> Seq(Keys)]
  /\ admitted \in [Keys -> Nat] /\ due \in [Keys -> Int]

\* However requests interleave and whenever the map is swept, a key admits no
\* more than its limit in a window.
WithinLimit == \A k \in Keys : admitted[k] <= Limit[k]

\* "A client over its own budget does not use up the mailbox's": no key is hit
\* more often than the keys before it have let requests on to it.
OnlyAdmittedGoOn == \A k \in Keys : due[k] >= 0

\* The map with its sweep is a counter a key, by the book.
Windows == INSTANCE FixedWindows WITH clock <- now,
  hits <- [k \in Keys |-> IF Live(k) THEN windows[k].count ELSE 0],
  until <- [k \in Keys |-> IF Live(k) THEN windows[k].resetAt ELSE 0]

\* Hit and the sweep keep the promise of GuestRateLimitStore in every step.
StartsFresh == Windows!WindowsInit
IsFixedWindows == Windows!WindowsStep
=============================================================================
