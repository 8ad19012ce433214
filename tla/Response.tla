------------------------------ MODULE Response ------------------------------
(***************************************************************************)
(* What a client may see of one response, with no word of Python: nothing, *)
(* or one header block, then data, and never more of it than the header    *)
(* block promised.                                                         *)
(***************************************************************************)
EXTENDS Integers

CONSTANTS
  Promises,   (* the content lengths a header block may name *)
  NoPromise   (* a header block without content length       *)

VARIABLES
  stage,      (* "empty", "open" once the headers are out, "ended" *)
  promise,    (* the content length the headers name               *)
  sent        (* bytes of data sent                                *)

rvars == <<stage, promise, sent>>

RInit ==
  /\ stage = "empty"
  /\ promise = NoPromise
  /\ sent = 0

SendHeaders(l) ==
  /\ stage = "empty"
  /\ stage' = "open"
  /\ promise' = l
  /\ sent' \in IF l = NoPromise THEN Nat ELSE 0 .. l

SendData ==
  /\ stage = "open"
  /\ sent' \in IF promise = NoPromise THEN Nat ELSE 0 .. promise
  /\ sent' > sent
  /\ UNCHANGED <<stage, promise>>

End ==
  /\ stage # "ended"
  /\ stage' = "ended"
  /\ UNCHANGED <<promise, sent>>

RNext ==
  \/ \E l \in Promises \cup {NoPromise} : SendHeaders(l)
  \/ SendData
  \/ End

RSpec == RInit /\ [][RNext]_rvars
=============================================================================
