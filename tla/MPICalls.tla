------------------------------ MODULE MPICalls ------------------------------
(***************************************************************************)
(* Blocking collective calls of MPI as the runner and the tensor-parallel  *)
(* graph use them. All ranks make their calls on a communicator in order,  *)
(* and the calls that are the i-th of their rank belong together. A        *)
(* broadcast lets its root go on at once (MPI may buffer it) and the       *)
(* others once the root has made it; every other call lets nobody go       *)
(* before all have made it. Calls of different kinds that meet are an      *)
(* error MPI gives no meaning to: from then on "crossed" holds.            *)
(*                                                                         *)
(* Calls that all ranks have left are forgotten, so the state is bounded   *)
(* by how far one rank is ahead of another.                                *)
(***************************************************************************)
EXTENDS Naturals, Sequences

CONSTANTS
  Ranks, Root,
  Comms,       \* communicators
  Kinds,       \* kinds of calls
  CommOf(_),   \* the communicator a kind of call is made on
  Broadcasts   \* the kinds that are broadcasts of the root

Nothing == [cmd |-> "nothing", arg |-> 0]

(* calls: what was called, oldest first; made: how many of them by whom;  *)
(* at: the call a rank is blocked in, or a place where it makes none.      *)
QuietNet == [calls |-> [c \in Comms |-> <<>>],
             made |-> [c \in Comms |-> [r \in Ranks |-> 0]],
             crossed |-> FALSE]

(* Rank r makes its next call of kind k; the root of a broadcast gives     *)
(* what is broadcast.                                                      *)
Entered(net, r, k, payload) ==
  LET c == CommOf(k)
      i == net.made[c][r] + 1
      old == net.calls[c]
      met == i <= Len(old)
      given == IF r = Root THEN payload ELSE old[i].payload
  IN [calls |-> [net.calls EXCEPT ![c] =
        IF met THEN [old EXCEPT ![i] = [kind |-> old[i].kind, payload |-> given]]
        ELSE Append(old, [kind |-> k, payload |-> payload])],
      made |-> [net.made EXCEPT ![c][r] = i],
      crossed |-> net.crossed \/ (met /\ old[i].kind # k)]

(* The call that rank r is in, of kind k, may return.                      *)
MayReturn(net, r, k) ==
  LET c == CommOf(k)
      i == net.made[c][r]
  IN IF k \in Broadcasts THEN net.made[c][Root] >= i
     ELSE \A q \in Ranks : net.made[c][q] >= i

(* What the broadcast that rank r is in delivers.                          *)
Delivered(net, r, k) ==
  LET c == CommOf(k) IN net.calls[c][net.made[c][r]].payload

(* How many calls a rank, and everybody, has left.                         *)
Left(net, at, c, r) ==
  IF at[r] \in Kinds /\ CommOf(at[r]) = c THEN net.made[c][r] - 1
  ELSE net.made[c][r]

Gone(net, at, c) ==
  CHOOSE n \in 0..Len(net.calls[c]) :
    /\ \A r \in Ranks : n <= Left(net, at, c, r)
    /\ \E r \in Ranks : n = Left(net, at, c, r)

Retired(net, at) ==
  [calls |-> [c \in Comms |->
     SubSeq(net.calls[c], Gone(net, at, c) + 1, Len(net.calls[c]))],
   made |-> [c \in Comms |-> [r \in Ranks |-> net.made[c][r] - Gone(net, at, c)]],
   crossed |-> net.crossed]
=============================================================================
