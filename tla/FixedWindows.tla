----------------------------- MODULE FixedWindows -----------------------------
(***************************************************************************)
(* What a guest rate-limit store promises (middleware.GuestRateLimitStore):  *)
(* one counter a key, counting the hits of a window that starts with the     *)
(* first and lasts Window.                                                   *)
(***************************************************************************)
EXTENDS Naturals

CONSTANTS Keys, Window

VARIABLES
  hits,   \* the hits of a key's current window; 0 between windows
  until,  \* when the window ends; 0 between windows
  clock

WindowsInit == /\ hits = [k \in Keys |-> 0] /\ until = [k \in Keys |-> 0]
               /\ clock = 0

Count(k) ==
  /\ hits' = [hits EXCEPT ![k] = @ + 1]
  /\ until' = [until EXCEPT ![k] = IF hits[k] = 0 THEN clock + Window ELSE @]
  /\ UNCHANGED clock

Pass ==
  /\ clock' = clock + 1
  /\ hits' = [k \in Keys |-> IF until[k] > clock' THEN hits[k] ELSE 0]
  /\ until' = [k \in Keys |-> IF until[k] > clock' THEN until[k] ELSE 0]

WindowsNext == Pass \/ \E k \in Keys : Count(k)

WindowsStep == [WindowsNext]_<<hits, until, clock>>
WindowsSpec == WindowsInit /\ [][WindowsNext]_<<hits, until, clock>>
=============================================================================
