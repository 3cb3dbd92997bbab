------------------------------- MODULE CodeOnce -------------------------------
(***************************************************************************)
(* What a guest email code promises: a bounded number of guesses, taken by   *)
(* one request at a time, handed back only when nothing was written under    *)
(* it, and written under at most once.                                       *)
(***************************************************************************)
EXTENDS Naturals

CONSTANTS Codes, MaxGuesses

VARIABLES
  guesses,  \* how often a code has been guessed
  taken,    \* the codes a request holds or has written under
  written   \* the codes written under

OnceInit == guesses = [c \in Codes |-> 0] /\ taken = {} /\ written = {}

Guess(c) ==
  /\ guesses[c] < MaxGuesses
  /\ guesses' = [guesses EXCEPT ![c] = @ + 1]
  /\ UNCHANGED <<taken, written>>

Take(c) ==
  /\ c \notin taken /\ guesses[c] > 0
  /\ taken' = taken \cup {c}
  /\ UNCHANGED <<guesses, written>>

WriteUnder(c) ==
  /\ c \in taken \ written
  /\ written' = written \cup {c}
  /\ UNCHANGED <<guesses, taken>>

HandBack(C) ==
  /\ taken' = taken \ C
  /\ UNCHANGED <<guesses, written>>

OnceNext == \/ \E c \in Codes : Guess(c) \/ Take(c) \/ WriteUnder(c)
            \/ \E C \in SUBSET (taken \ written) : HandBack(C)

OnceSpec == OnceInit /\ [][OnceNext]_<<guesses, taken, written>>
=============================================================================
