----------------------------- MODULE WorkerTurns -----------------------------
(***************************************************************************)
(* What a worker process is to the requests it handles, with no word of    *)
(* sockets or scripts: it takes one at a time, is done with it before the  *)
(* next, leaves after a limited number, and may be gone at any moment; the *)
(* next process under its name starts to count anew.                       *)
(***************************************************************************)
EXTENDS Naturals

CONSTANTS
  Workers,   (* names of workers                                           *)
  Limit      (* requests a worker handles at most, 0 for any number        *)

VARIABLES
  turn,      (* each worker's: "gone", "resting" or "working"              *)
  count      (* requests each has taken                                    *)

tvars == <<turn, count>>

Becomes(w, t, n) ==
  /\ turn' = [turn EXCEPT ![w] = t]
  /\ count' = [count EXCEPT ![w] = n]

TInit ==
  /\ turn \in [Workers -> {"gone", "resting"}]
  /\ count = [w \in Workers |-> 0]

Start(w) == turn[w] = "gone" /\ Becomes(w, "resting", 0)

TakeOne(w) ==
  /\ turn[w] = "resting"
  /\ Limit > 0 => count[w] < Limit
  /\ Becomes(w, "working", count[w] + 1)

Done(w) == turn[w] = "working" /\ Becomes(w, "resting", count[w])

Leave(w) == turn[w] # "gone" /\ Becomes(w, "gone", 0)

TNext == \E w \in Workers : Start(w) \/ TakeOne(w) \/ Done(w) \/ Leave(w)

TSpec == TInit /\ [][TNext]_tvars
=============================================================================
