----------------------- MODULE CoordinatedDecode_proofs -----------------------
(***************************************************************************)
(* What is proved about CoordinatedDecode: for every number of ranks and   *)
(* every request, the ranks' calls meet calls of the same kind, every rank *)
(* has computed one row for each token of prompt and answer but the last,  *)
(* and between commands the workers have rank 0's sequence.                *)
(*                                                                         *)
(* The argument: all ranks walk the same sequence of stations, one for     *)
(* each call on the world communicator. A station says what the call is    *)
(* and what the state of a rank that makes it is, up to what ranks do not  *)
(* share; what is broadcast decides the next station. Rank 0 is always     *)
(* ahead, so that whatever a worker meets, rank 0 has walked before.       *)
(***************************************************************************)
EXTENDS CoordinatedDecode, SequenceTheorems, WellFoundedInduction, TLAPS

(* What ranks must support what requests ask for: no greedy request with   *)
(* penalties, which SET_SAMPLING does not carry, where greedy sampling is  *)
(* coordinated, and no logits left on the GPU for rank 0 to sample from on *)
(* the host.                                                               *)
Matching(s) ==
  \A p \in s.samplings :
    /\ s.gpu /\ s.sharded => ~(p.greedy /\ p.penalties)
    /\ s.gpu /\ ~p.penalties /\ (p.greedy \/ p.narrow) => s.sharded /\ p.greedy

-----------------------------------------------------------------------------
(* Types. *)

Args == {0} \cup Samplings \cup Prompts \cup Tokens
Cmds == Commands \cup {"nothing", "gather", "token"}
Payloads == [cmd : Cmds, arg : Args]
Runners == [fed : Seq(Tokens), ready : BOOLEAN, last : Tokens,
            history : Seq(Tokens), sampling : Samplings, sample : Tokens]
Clients == [phase : Phases, prompt : Prompts \cup {<<>>}, sampling : Samplings,
            budget : Int, completion : Int, thought : Int,
            inThinking : BOOLEAN, forcing : 0..Len(StopThinking)]
NetCalls == [kind : Kinds, payload : Payloads]
Places == Kinds \cup {"client", "exited"}
WorldKinds == {"command", "fence", "token"}
DomainKinds == {"forward", "gather"}

(* A network whose calls are where they belong and none crossed.           *)
Wired(n) ==
  /\ n = [calls |-> n.calls, made |-> n.made, crossed |-> n.crossed]
  /\ n.calls \in [Comms -> Seq(NetCalls)]
  /\ n.made \in [Comms -> [Ranks -> Nat]]
  /\ \A c \in Comms, r \in Ranks : n.made[c][r] <= Len(n.calls[c])
  /\ n.crossed = FALSE

-----------------------------------------------------------------------------
(* Stations. *)

(* What rank 0 and the workers share of a runner's state.                  *)
Shared(s) == [s EXCEPT !.sampling = OnTheWire(s.sampling), !.sample = ZeroToken]

(* Whether greedy sampling gathers, for what is shared of a runner.        *)
Coordinated(u, c) == u.gpu /\ u.sharded /\ c.sampling.greedy

(* kind: the call on the world communicator; task: the command it belongs  *)
(* to; core: the shared state of a rank that makes it; calls: the calls a  *)
(* rank makes on the domain communicator before it, since the last         *)
(* station; dom: how many calls it has made there by then.                 *)
Stations ==
  {e \in [kind : WorldKinds \cup {"exited"}, task : Payloads, core : Runners,
          calls : SUBSET DomainKinds, dom : Int] :
     e.kind = "fence" => e.task.cmd \in {"decode", "force"}}

Number(calls) ==
  (IF "forward" \in calls THEN 1 ELSE 0) + (IF "gather" \in calls THEN 1 ELSE 0)

(* Which call of the domain communicator a station's call of kind k is.    *)
Turn(e, k) == IF k = "forward" /\ "gather" \in e.calls THEN e.dom - 1 ELSE e.dom

Then(e, kind, t, c, calls) ==
  [kind |-> kind, task |-> t, core |-> c, calls |-> calls,
   dom |-> e.dom + Number(calls)]

GatherIf(u, c) == IF Coordinated(u, c) THEN {"gather"} ELSE {}
ForwardUnless(ready) == IF ready THEN {} ELSE {"forward"}

(* The state when the logits of the last token are there to sample from.   *)
Ran(c) == IF c.ready THEN [c EXCEPT !.ready = FALSE]
          ELSE [c EXCEPT !.fed = Append(c.fed, c.last)]
Primed(c, p) == [c EXCEPT !.last = p[Len(p)]]
Prefilled(c, p) == [c EXCEPT !.fed = c.fed \o p, !.ready = TRUE]

(* The station after the one at which command t was taken.                 *)
Ordered(u, e, t) ==
  CASE t.cmd = "clear" -> Then(e, "command", t, Cleared(e.core), {})
    [] t.cmd = "sampling" -> Then(e, "command", t, Configured(e.core, t.arg), {})
    [] t.cmd = "prefill" ->
         IF Len(t.arg) > ActivationLength
         THEN Then(e, "command", t, Primed(e.core, t.arg), {})
         ELSE Then(e, "command", t, Prefilled(Primed(e.core, t.arg), t.arg), {"forward"})
    [] t.cmd = "decode" ->
         Then(e, "fence", t, Ran(e.core),
              ForwardUnless(e.core.ready) \cup GatherIf(u, e.core))
    [] t.cmd = "force" ->
         Then(e, "fence", t, Recorded(Ran(e.core), t.arg), ForwardUnless(e.core.ready))
    [] OTHER -> Then(e, "exited", t, e.core, {})

(* The station after e, when e's call delivers p.                          *)
Onward(u, e, p) ==
  CASE e.kind = "command" -> Ordered(u, e, p)
    [] e.kind = "fence" ->
         Then(e, IF e.task.cmd = "decode" THEN "token" ELSE "command", e.task, e.core, {})
    [] e.kind = "token" -> Then(e, "command", e.task, Recorded(e.core, p.arg), {})
    [] OTHER -> e

(* What rank 0 broadcasts at a station.                                    *)
Sent(k, p) ==
  /\ p \in Payloads
  /\ k = "command" =>
       /\ p.cmd \in {"clear", "sampling", "prefill", "decode", "force", "shutdown"}
       /\ p.cmd = "sampling" => p.arg \in Samplings /\ p.arg.penalties = FALSE
       /\ p.cmd = "prefill" => p.arg \in Prompts
       /\ p.cmd = "force" => p.arg \in Tokens
  /\ k = "token" => p.arg \in Tokens

-----------------------------------------------------------------------------
(* The walk. Calls are numbered from the start of the run: o says how many *)
(* of a communicator the network has forgotten.                            *)

Index(n, o, c, r) == n.made[c][r] + o[c]
Kept(n, o, c) == (o[c] + 1)..(o[c] + Len(n.calls[c]))
CallAt(n, o, c, j) == n.calls[c][j - o[c]]
(* The station rank 0 is heading to.                                       *)
Front(n, o) == Index(n, o, "world", Root) + 1

(* A call on world is that of its station, and leads to the next.          *)
WorldWalk(u, n, o, tr) ==
  \A j \in Kept(n, o, "world") :
    /\ j <= Front(n, o) /\ CallAt(n, o, "world", j).kind = tr[j].kind
    /\ j < Front(n, o) =>
         LET p == CallAt(n, o, "world", j).payload
         IN Sent(tr[j].kind, p) /\ tr[j + 1] = Onward(u, tr[j], p)

(* The stations' calls on domain follow each other.                        *)
InTurn(tr, front) ==
  \A k \in Nat : k <= front =>
    \A i \in Nat : i < k => tr[i].dom <= tr[k].dom - Number(tr[k].calls)

(* A call on domain is of the kind its station says.                       *)
DomainWalk(n, o, tr) ==
  \A j \in Kept(n, o, "domain") :
    /\ j <= tr[Front(n, o)].dom
    /\ \A i \in Nat : i <= Front(n, o) =>
         \A k \in tr[i].calls : j = Turn(tr[i], k) => CallAt(n, o, "domain", j).kind = k
    /\ CallAt(n, o, "domain", j).kind = "gather"
         => CallAt(n, o, "domain", j).payload.arg \in Tokens

Walk(u, n, o, tr) ==
  /\ o \in [Comms -> Nat] /\ tr \in [Nat -> Stations]
  /\ WorldWalk(u, n, o, tr) /\ InTurn(tr, Front(n, o)) /\ DomainWalk(n, o, tr)

(* A rank in place, executing t with runner s, is heading to station e.    *)
Heading(u, e, d, place, t, s) ==
  /\ place = "client" => e.kind = "command" /\ e.core = Shared(s) /\ d = e.dom
  /\ place = "forward" =>
       /\ "forward" \in e.calls /\ d = Turn(e, "forward")
       /\ \/ /\ t.cmd = "prefill" /\ t.arg \in Prompts /\ e.kind = "command"
             /\ e.core = Shared(Prefilled(s, t.arg)) /\ "gather" \notin e.calls
          \/ /\ t.cmd = "decode" /\ e.kind = "fence" /\ s.ready = FALSE
             /\ e.core = Shared(Ran(s)) /\ ("gather" \in e.calls <=> Coordinated(u, s))
          \/ /\ t.cmd = "force" /\ t.arg \in Tokens /\ e.kind = "fence" /\ s.ready = FALSE
             /\ e.core = Shared(Recorded(Ran(s), t.arg)) /\ "gather" \notin e.calls
  /\ place = "gather" =>
       /\ "gather" \in e.calls /\ d = e.dom
       /\ t.cmd = "decode" /\ e.kind = "fence" /\ e.core = Shared(s)

(* Where a rank is that has made i calls on world and d on domain.         *)
Stands(u, tr, front, i, d, place, t, s) ==
  /\ i <= front
  /\ place \in WorldKinds =>
       tr[i].kind = place /\ tr[i].task = t /\ tr[i].core = Shared(s) /\ tr[i].dom = d
  /\ place \in DomainKinds \cup {"client"} =>
       i + 1 <= front /\ tr[i + 1].task = t /\ Heading(u, tr[i + 1], d, place, t, s)

(* Every rank is on the walk, and has made the call it is in.              *)
Together(u, n, o, tr, pl, ts, rs) ==
  /\ Wired(n) /\ Walk(u, n, o, tr)
  /\ \A c \in Comms, r \in Ranks : Left(n, pl, c, r) >= 0
  /\ \A r \in Ranks :
       Stands(u, tr, Front(n, o), Index(n, o, "world", r), Index(n, o, "domain", r),
              pl[r], ts[r], rs[r])

(* A step of rank r from network m has come to network n and walk tr; no   *)
(* other rank has moved.                                                   *)
Underway(m, n, u, o, tr0, tr, r) ==
  /\ Wired(n) /\ Walk(u, n, o, tr)
  /\ \A c \in Comms, q \in Ranks \ {r} : n.made[c][q] = m.made[c][q]
  /\ Front(m, o) <= Front(n, o)
  /\ \A i \in Nat : i <= Front(m, o) => tr[i] = tr0[i]

-----------------------------------------------------------------------------
(* Lemmas about the state ranks share. *)

LEMMA Parameters ==
  /\ Root \in Ranks /\ ZeroToken \in Tokens
  /\ ActivationLength \in Nat /\ StopThinking \in Seq(Tokens) /\ StopThinking # <<>>
  /\ \A p \in Prompts : p \in Seq(Tokens) /\ p # <<>> /\ Len(p) \in Nat /\ p[Len(p)] \in Tokens
  /\ \A s \in Setups : s \in [gpu : BOOLEAN, sharded : BOOLEAN, samplings : SUBSET Samplings]
<1>1. ASSUME NEW p \in Prompts
      PROVE  p \in Seq(Tokens) /\ p # <<>> /\ Len(p) \in Nat /\ p[Len(p)] \in Tokens
  <2>1. p \in Seq(Tokens) /\ p # <<>>
    BY CoordinatedAssumption
  <2>2. Len(p) \in Nat /\ Len(p) # 0
    BY <2>1, EmptySeq, LenProperties
  <2>3. Len(p) \in 1..Len(p)
    BY <2>2
  <2> QED
    BY <2>1, <2>2, <2>3, ElementOfSeq
<1> QED
  BY <1>1, CoordinatedAssumption

(* What a runner's fields are, and what is shared of them. *)
LEMMA SharedFields ==
  ASSUME NEW s \in Runners
  PROVE  /\ s.fed \in Seq(Tokens) /\ s.ready \in BOOLEAN /\ s.last \in Tokens
         /\ s.history \in Seq(Tokens) /\ s.sampling \in Samplings /\ s.sample \in Tokens
         /\ Shared(s) \in Runners
         /\ Shared(s).fed = s.fed /\ Shared(s).ready = s.ready /\ Shared(s).last = s.last
         /\ Shared(s).history = s.history /\ Shared(s).sampling = OnTheWire(s.sampling)
         /\ Shared(s).sampling.penalties = FALSE
         /\ Shared(s).sampling.greedy = s.sampling.greedy
         /\ \A u : Coordinated(u, Shared(s)) <=> Coordinated(u, s)
<1>1. ZeroToken \in Tokens
  BY Parameters
<1>2. OnTheWire(s.sampling) \in Samplings
      /\ OnTheWire(s.sampling).penalties = FALSE
      /\ OnTheWire(s.sampling).greedy = s.sampling.greedy
  BY DEF Runners, OnTheWire, Samplings
<1>3. /\ Shared(s) \in Runners
      /\ Shared(s).fed = s.fed /\ Shared(s).ready = s.ready /\ Shared(s).last = s.last
      /\ Shared(s).history = s.history /\ Shared(s).sampling = OnTheWire(s.sampling)
  BY <1>1, <1>2 DEF Runners, Shared
<1> QED
  BY <1>2, <1>3 DEF Runners, Coordinated

LEMMA SharedCleared ==
  ASSUME NEW s \in Runners
  PROVE  Cleared(s) \in Runners /\ Shared(Cleared(s)) = Cleared(Shared(s))
<1>1. Cleared(s) \in Runners
  BY EmptySeq DEF Runners, Cleared
<1>2. Cleared(s).sampling = s.sampling
  BY DEF Runners, Cleared
<1> QED
  BY <1>1, <1>2 DEF Shared, Cleared, Runners

LEMMA SharedConfigured ==
  ASSUME NEW s \in Runners, NEW p \in Samplings
  PROVE  Configured(s, p) \in Runners
         /\ Shared(Configured(s, p)) = Configured(Shared(s), OnTheWire(p))
<1>1. Configured(s, p) \in Runners
  BY EmptySeq DEF Runners, Configured
<1>2. Configured(s, p).sampling = p
  BY DEF Runners, Configured
<1> QED
  BY <1>1, <1>2 DEF Shared, Configured, Runners

LEMMA SharedRecorded ==
  ASSUME NEW s \in Runners, NEW t \in Tokens
  PROVE  Recorded(s, t) \in Runners
         /\ Recorded(s, t).history = Append(s.history, t) /\ Recorded(s, t).last = t
         /\ Recorded(s, t).fed = s.fed /\ Recorded(s, t).ready = s.ready
         /\ Recorded(s, t).sampling = s.sampling
         /\ Shared(Recorded(s, t)) = Recorded(Shared(s), t)
<1>0. Append(s.history, t) \in Seq(Tokens)
  BY SharedFields, AppendProperties
<1>1. /\ Recorded(s, t) \in Runners
      /\ Recorded(s, t).history = Append(s.history, t) /\ Recorded(s, t).last = t
      /\ Recorded(s, t).fed = s.fed /\ Recorded(s, t).ready = s.ready
      /\ Recorded(s, t).sampling = s.sampling
  BY <1>0, Parameters DEF Runners, Recorded
<1>2. Shared(s).history = s.history
  BY SharedFields
<1> QED
  BY <1>1, <1>2 DEF Shared, Recorded, Runners

LEMMA SharedRan ==
  ASSUME NEW s \in Runners
  PROVE  Ran(s) \in Runners /\ Ran(s).ready = FALSE /\ Ran(s).sampling = s.sampling
         /\ Ran(s).history = s.history /\ Ran(s).last = s.last
         /\ Shared(Ran(s)) = Ran(Shared(s))
<1>0. Append(s.fed, s.last) \in Seq(Tokens)
  BY SharedFields, AppendProperties
<1>1. /\ Ran(s) \in Runners /\ Ran(s).ready = FALSE /\ Ran(s).sampling = s.sampling
      /\ Ran(s).history = s.history /\ Ran(s).last = s.last
  BY <1>0 DEF Runners, Ran
<1>2. Shared(s).fed = s.fed /\ Shared(s).ready = s.ready /\ Shared(s).last = s.last
  BY SharedFields
<1> QED
  BY <1>1, <1>2 DEF Shared, Ran, Runners

LEMMA SharedPrimed ==
  ASSUME NEW s \in Runners, NEW p \in Prompts
  PROVE  Primed(s, p) \in Runners /\ Shared(Primed(s, p)) = Primed(Shared(s), p)
         /\ Primed(s, p).sampling = s.sampling
         /\ Prefilled(s, p) \in Runners /\ Shared(Prefilled(s, p)) = Prefilled(Shared(s), p)
         /\ Prefilled(s, p).sampling = s.sampling
<1>1. p \in Seq(Tokens) /\ p[Len(p)] \in Tokens
  BY Parameters
<1>2. Primed(s, p) \in Runners /\ Primed(s, p).sampling = s.sampling
  BY <1>1 DEF Runners, Primed
<1>3. s.fed \o p \in Seq(Tokens)
  BY <1>1, SharedFields, ConcatProperties
<1>4. Prefilled(s, p) \in Runners /\ Prefilled(s, p).sampling = s.sampling
  BY <1>1, <1>3 DEF Runners, Prefilled
<1>5. Shared(s).fed = s.fed
  BY SharedFields
<1>6. Shared(Primed(s, p)) = Primed(Shared(s), p)
  BY <1>2 DEF Shared, Primed, Runners
<1>7. Shared(Prefilled(s, p)) = Prefilled(Shared(s), p)
  BY <1>4, <1>5 DEF Shared, Prefilled, Runners
<1> QED
  BY <1>2, <1>4, <1>6, <1>7

-----------------------------------------------------------------------------
(* Lemmas about stations. *)

LEMMA ThenStation ==
  ASSUME NEW e \in Stations, NEW kind \in WorldKinds \cup {"exited"},
         NEW t \in Payloads, NEW c \in Runners, NEW calls \in SUBSET DomainKinds,
         kind = "fence" => t.cmd \in {"decode", "force"}
  PROVE  /\ Then(e, kind, t, c, calls) \in Stations
         /\ Then(e, kind, t, c, calls).dom = e.dom + Number(calls)
         /\ Then(e, kind, t, c, calls).calls = calls
         /\ Then(e, kind, t, c, calls).kind = kind
         /\ Then(e, kind, t, c, calls).task = t
         /\ Then(e, kind, t, c, calls).core = c
<1>1. Number(calls) \in Int
  BY DEF Number
<1> QED
  BY <1>1 DEF Stations, Then

LEMMA OnwardStation ==
  ASSUME NEW u, NEW e \in Stations, NEW p, e.kind \in WorldKinds, Sent(e.kind, p)
  PROVE  /\ Onward(u, e, p) \in Stations
         /\ Onward(u, e, p).dom = e.dom + Number(Onward(u, e, p).calls)
<1>1. e.core \in Runners /\ e.task \in Payloads /\ p \in Payloads
  BY DEF Stations, Sent
<1>2. \A b \in BOOLEAN : ForwardUnless(b) \in SUBSET DomainKinds
  BY DEF ForwardUnless, DomainKinds
<1>3. GatherIf(u, e.core) \in SUBSET DomainKinds
  BY DEF GatherIf, DomainKinds
<1>4. e.core.ready \in BOOLEAN
  BY <1>1, SharedFields
<1> DEFINE S(kind, t, c, calls) == Then(e, kind, t, c, calls)
<1>5. CASE e.kind = "command"
  <2>0. p.cmd \in {"clear", "sampling", "prefill", "decode", "force", "shutdown"}
    BY <1>5 DEF Sent
  <2> SUFFICES /\ Ordered(u, e, p) \in Stations
               /\ Ordered(u, e, p).dom = e.dom + Number(Ordered(u, e, p).calls)
    BY <1>5 DEF Onward
  <2>1. CASE p.cmd = "clear"
    <3>1. Ordered(u, e, p) = Then(e, "command", p, Cleared(e.core), {})
      BY <2>1 DEF Ordered
    <3> DEFINE c == Cleared(e.core)
    <3>2. c \in Runners
      BY <1>1, SharedCleared
    <3> HIDE DEF c
    <3>3. Ordered(u, e, p) = Then(e, "command", p, c, {})
      BY <3>1 DEF c
    <3> QED
      BY <1>1, <3>2, <3>3, ThenStation DEF WorldKinds
  <2>2. CASE p.cmd = "sampling"
    <3>1. Ordered(u, e, p) = Then(e, "command", p, Configured(e.core, p.arg), {})
      BY <2>2 DEF Ordered
    <3>2. p.arg \in Samplings
      BY <1>5, <2>2 DEF Sent
    <3> DEFINE c == Configured(e.core, p.arg)
    <3>3. c \in Runners
      BY <1>1, <3>2, SharedConfigured
    <3> HIDE DEF c
    <3>4. Ordered(u, e, p) = Then(e, "command", p, c, {})
      BY <3>1 DEF c
    <3> QED
      BY <1>1, <3>3, <3>4, ThenStation DEF WorldKinds
  <2>3. CASE p.cmd = "prefill"
    <3>1. Ordered(u, e, p) =
            IF Len(p.arg) > ActivationLength
            THEN Then(e, "command", p, Primed(e.core, p.arg), {})
            ELSE Then(e, "command", p, Prefilled(Primed(e.core, p.arg), p.arg), {"forward"})
      BY <2>3 DEF Ordered
    <3>2. p.arg \in Prompts
      BY <1>5, <2>3 DEF Sent
    <3>3. Primed(e.core, p.arg) \in Runners /\ Prefilled(Primed(e.core, p.arg), p.arg) \in Runners
      BY <1>1, <3>2, SharedPrimed
    <3>4. {"forward"} \in SUBSET DomainKinds /\ {} \in SUBSET DomainKinds
      BY DEF DomainKinds
    <3>5. CASE Len(p.arg) > ActivationLength
      <4> DEFINE c == Primed(e.core, p.arg)
      <4> HIDE DEF c
      <4>1. Ordered(u, e, p) = Then(e, "command", p, c, {}) /\ c \in Runners
        BY <3>1, <3>3, <3>5 DEF c
      <4> QED
        BY <1>1, <3>4, <4>1, ThenStation DEF WorldKinds
    <3>6. CASE ~(Len(p.arg) > ActivationLength)
      <4> DEFINE c == Prefilled(Primed(e.core, p.arg), p.arg)
      <4> HIDE DEF c
      <4>1. Ordered(u, e, p) = Then(e, "command", p, c, {"forward"}) /\ c \in Runners
        BY <3>1, <3>3, <3>6 DEF c
      <4> QED
        BY <1>1, <3>4, <4>1, ThenStation DEF WorldKinds
    <3> QED
      BY <3>5, <3>6
  <2>4. CASE p.cmd = "decode"
    <3> DEFINE calls == ForwardUnless(e.core.ready) \cup GatherIf(u, e.core)
    <3>1. Ordered(u, e, p) = Then(e, "fence", p, Ran(e.core), calls)
      BY <2>4 DEF Ordered
    <3>2. calls \in SUBSET DomainKinds
      BY <1>2, <1>3, <1>4
    <3>3. Ran(e.core) \in Runners /\ p.cmd \in {"decode", "force"} /\ "fence" \in WorldKinds
      BY <1>1, <2>4, SharedRan DEF WorldKinds
    <3> HIDE DEF calls
    <3> QED
      BY <1>1, <3>1, <3>2, <3>3, ThenStation
  <2>5. CASE p.cmd = "force"
    <3>1. Ordered(u, e, p)
            = Then(e, "fence", p, Recorded(Ran(e.core), p.arg), ForwardUnless(e.core.ready))
      BY <2>5 DEF Ordered
    <3>2. p.arg \in Tokens
      BY <1>5, <2>5 DEF Sent
    <3> DEFINE c == Recorded(Ran(e.core), p.arg)
               calls == ForwardUnless(e.core.ready)
    <3>3. Ran(e.core) \in Runners
      BY <1>1, SharedRan
    <3>4. c \in Runners
      BY <3>2, <3>3, SharedRecorded
    <3>5. p.cmd \in {"decode", "force"} /\ "fence" \in WorldKinds
          /\ calls \in SUBSET DomainKinds
      BY <1>2, <1>4, <2>5 DEF WorldKinds
    <3> HIDE DEF c, calls
    <3>6. Ordered(u, e, p) = Then(e, "fence", p, c, calls)
      BY <3>1 DEF c, calls
    <3> QED
      BY <1>1, <3>4, <3>5, <3>6, ThenStation
  <2>6. CASE p.cmd = "shutdown"
    <3>1. Ordered(u, e, p) = Then(e, "exited", p, e.core, {})
      BY <2>6 DEF Ordered
    <3> QED
      BY <1>1, <3>1, ThenStation DEF WorldKinds
  <2> QED
    BY <2>0, <2>1, <2>2, <2>3, <2>4, <2>5, <2>6
<1>6. CASE e.kind = "fence"
  <2>1. Onward(u, e, p) =
          Then(e, IF e.task.cmd = "decode" THEN "token" ELSE "command", e.task, e.core, {})
    BY <1>6 DEF Onward
  <2> QED
    BY <1>1, <2>1, ThenStation DEF WorldKinds
<1>7. CASE e.kind = "token"
  <2>1. Onward(u, e, p) = Then(e, "command", e.task, Recorded(e.core, p.arg), {})
    BY <1>7 DEF Onward
  <2>2. p.arg \in Tokens
    BY <1>7 DEF Sent
  <2> DEFINE c == Recorded(e.core, p.arg)
  <2>3. c \in Runners
    BY <1>1, <2>2, SharedRecorded
  <2> HIDE DEF c
  <2>4. Onward(u, e, p) = Then(e, "command", e.task, c, {})
    BY <2>1 DEF c
  <2> QED
    BY <1>1, <2>3, <2>4, ThenStation DEF WorldKinds
<1> QED
  BY <1>5, <1>6, <1>7 DEF WorldKinds

(* A call of the domain communicator belongs to one station only. *)
LEMMA TurnsApart ==
  ASSUME NEW tr \in [Nat -> Stations], NEW front \in Nat, InTurn(tr, front),
         NEW i \in Nat, NEW j \in Nat, i <= front, j <= front,
         NEW k \in tr[i].calls, NEW l \in tr[j].calls, Turn(tr[i], k) = Turn(tr[j], l)
  PROVE  k = l
<1>1. /\ tr[i] \in Stations /\ tr[j] \in Stations
      /\ tr[i].calls \in SUBSET DomainKinds /\ tr[j].calls \in SUBSET DomainKinds
      /\ tr[i].dom \in Int /\ tr[j].dom \in Int
  BY DEF Stations
<1>2. \A e \in Stations : \A h \in e.calls :
        e.dom - Number(e.calls) < Turn(e, h) /\ Turn(e, h) <= e.dom
  BY DEF Stations, Turn, Number, DomainKinds
<1>3. i = j
  <2>1. i < j => tr[i].dom <= tr[j].dom - Number(tr[j].calls)
    BY DEF InTurn
  <2>2. j < i => tr[j].dom <= tr[i].dom - Number(tr[i].calls)
    BY DEF InTurn
  <2>3. Number(tr[i].calls) \in Int /\ Number(tr[j].calls) \in Int
    BY DEF Number
  <2>4. Turn(tr[i], k) \in Int
    BY <1>1 DEF Turn
  <2>5. /\ tr[i].dom - Number(tr[i].calls) < Turn(tr[i], k) /\ Turn(tr[i], k) <= tr[i].dom
        /\ tr[j].dom - Number(tr[j].calls) < Turn(tr[j], l) /\ Turn(tr[j], l) <= tr[j].dom
    BY <1>1, <1>2
  <2> QED
    BY <1>1, <2>1, <2>2, <2>3, <2>4, <2>5
<1>4. k \in DomainKinds /\ l \in DomainKinds
  BY <1>1
<1> QED
  BY <1>1, <1>3, <1>4 DEF Turn, DomainKinds

-----------------------------------------------------------------------------
(* Lemmas about the network. *)

(* Network m is n after rank r has called k on c, with p if it is rank 0.  *)
CallMade(n, m, c, r, k, p) ==
  LET i == n.made[c][r] + 1
      old == n.calls[c]
  IN /\ \A d \in Comms, q \in Ranks :
          m.made[d][q] = IF d = c /\ q = r THEN i ELSE n.made[d][q]
     /\ \A d \in Comms \ {c} : m.calls[d] = n.calls[d]
     /\ i \in 1..(Len(old) + 1)
     /\ Len(m.calls[c]) = IF i <= Len(old) THEN Len(old) ELSE i
     /\ \A j \in 1..Len(old) : m.calls[c][j].kind = old[j].kind
     /\ \A j \in 1..Len(old) \ {i} : m.calls[c][j].payload = old[j].payload
     /\ r # Root => \A j \in 1..Len(old) : m.calls[c][j].payload = old[j].payload
     /\ r = Root \/ i > Len(old) => m.calls[c][i].payload = p
     /\ i > Len(old) => m.calls[c][i].kind = k
     /\ i > Len(old) \/ old[i].kind = k => Wired(m)

LEMMA EnteredFacts ==
  ASSUME NEW n, Wired(n), NEW r \in Ranks, NEW k \in Kinds, NEW p \in Payloads,
         NEW c \in Comms, c = CommOf(k)
  PROVE  CallMade(n, Entered(n, r, k, p), c, r, k, p)
<1> DEFINE i == n.made[c][r] + 1
           old == n.calls[c]
           met == i <= Len(old)
           given == IF r = Root THEN p ELSE old[i].payload
           new == IF met THEN [old EXCEPT ![i] = [kind |-> old[i].kind, payload |-> given]]
                  ELSE Append(old, [kind |-> k, payload |-> p])
           m == Entered(n, r, k, p)
<1>1. c \in Comms
  OBVIOUS
<1>2. /\ old \in Seq(NetCalls) /\ n.made[c][r] \in Nat /\ n.made[c][r] <= Len(old)
      /\ Len(old) \in Nat /\ n.calls \in [Comms -> Seq(NetCalls)]
      /\ n.made \in [Comms -> [Ranks -> Nat]] /\ n.crossed = FALSE
  BY <1>1, LenProperties DEF Wired
<1>3. i \in 1..(Len(old) + 1) /\ i \in Nat
  BY <1>2
<1>4. /\ m.calls = [n.calls EXCEPT ![c] = new]
      /\ m.made = [n.made EXCEPT ![c][r] = i]
      /\ m.crossed = (n.crossed \/ (met /\ old[i].kind # k))
      /\ m = [calls |-> m.calls, made |-> m.made, crossed |-> m.crossed]
  BY DEF Entered
<1> HIDE DEF m, i, old
<1>5. /\ new \in Seq(NetCalls)
      /\ Len(new) = IF i <= Len(old) THEN Len(old) ELSE i
      /\ \A j \in 1..Len(old) : new[j].kind = old[j].kind
      /\ \A j \in 1..Len(old) \ {i} : new[j].payload = old[j].payload
      /\ r # Root => \A j \in 1..Len(old) : new[j].payload = old[j].payload
      /\ r = Root \/ i > Len(old) => new[i].payload = p
      /\ i > Len(old) => new[i].kind = k
  <2>1. CASE met
    <3>1. i \in 1..Len(old)
      BY <1>3, <1>2, <2>1
    <3>2. old[i] \in NetCalls
      BY <3>1, <1>2, ElementOfSeq
    <3> DEFINE e == [kind |-> old[i].kind, payload |-> given]
    <3>3. e \in NetCalls /\ e.kind = old[i].kind /\ e.payload = given
      BY <3>2 DEF NetCalls
    <3> HIDE DEF e
    <3>4. new = [old EXCEPT ![i] = e]
      BY <2>1 DEF e
    <3>5. /\ new \in Seq(NetCalls) /\ Len(new) = Len(old)
          /\ \A j \in 1..Len(old) : new[j] = IF j = i THEN e ELSE old[j]
      BY <1>2, <3>1, <3>3, <3>4, ExceptSeq
    <3> HIDE DEF new
    <3>6. \A j \in 1..Len(old) : new[j].kind = old[j].kind
      BY <3>3, <3>5
    <3>7. \A j \in 1..Len(old) \ {i} : new[j].payload = old[j].payload
      BY <3>5
    <3>8. /\ new[i].payload = given
          /\ r # Root => \A j \in 1..Len(old) : new[j].payload = old[j].payload
      BY <3>1, <3>3, <3>5
    <3> QED
      BY <1>2, <1>3, <2>1, <3>5, <3>6, <3>7, <3>8
  <2>2. CASE ~met
    <3> DEFINE e == [kind |-> k, payload |-> p]
    <3>1. e \in NetCalls /\ e.kind = k /\ e.payload = p
      BY DEF NetCalls
    <3> HIDE DEF e
    <3>2. new = Append(old, e)
      BY <2>2 DEF e
    <3>3. /\ new \in Seq(NetCalls) /\ Len(new) = Len(old) + 1
          /\ \A j \in 1..Len(old) : new[j] = old[j]
          /\ new[Len(old) + 1] = e
      BY <1>2, <3>1, <3>2, AppendProperties
    <3>4. i = Len(old) + 1
      BY <1>2, <1>3, <2>2
    <3> HIDE DEF new
    <3> QED
      BY <1>2, <1>3, <2>2, <3>1, <3>3, <3>4
  <2> QED
    BY <2>1, <2>2
<1> HIDE DEF new
<1>6. /\ m.calls \in [Comms -> Seq(NetCalls)] /\ m.calls[c] = new
      /\ \A d \in Comms \ {c} : m.calls[d] = n.calls[d]
  BY <1>1, <1>2, <1>4, <1>5
<1>7. /\ m.made \in [Comms -> [Ranks -> Nat]]
      /\ \A d \in Comms, q \in Ranks :
           m.made[d][q] = IF d = c /\ q = r THEN i ELSE n.made[d][q]
  BY <1>1, <1>2, <1>3, <1>4
<1>8. ASSUME i > Len(old) \/ old[i].kind = k
      PROVE  Wired(m)
  <2>1. ~(met /\ old[i].kind # k)
    BY <1>2, <1>3, <1>8
  <2>2. m.crossed = FALSE
    <3> HIDE DEF met
    <3> QED
      BY <1>2, <1>4, <2>1, Zenon
  <2>3. ASSUME NEW d \in Comms, NEW q \in Ranks
        PROVE  m.made[d][q] <= Len(m.calls[d])
    <3>1. n.made[d][q] <= Len(n.calls[d]) /\ n.made[d][q] \in Nat
      BY DEF Wired
    <3>2. CASE d = c
      <4>1. m.made[c][q] = i \/ m.made[c][q] = n.made[c][q]
        BY <1>1, <1>7
      <4>2. i <= Len(new) /\ Len(old) <= Len(new)
        BY <1>2, <1>3, <1>5
      <4>3. n.made[c][q] <= Len(old) /\ Len(new) \in Nat
        BY <1>2, <1>3, <1>5, <3>1, <3>2 DEF old
      <4> QED
        BY <1>2, <1>3, <1>6, <3>1, <3>2, <4>1, <4>2, <4>3
    <3>3. CASE d # c
      BY <1>6, <1>7, <3>1, <3>3
    <3> QED
      BY <3>2, <3>3
  <2> QED
    BY <1>4, <1>6, <1>7, <2>2, <2>3 DEF Wired
<1> QED
  BY <1>2, <1>3, <1>5, <1>6, <1>7, <1>8 DEF m, i, old, CallMade

(* A non-empty set of numbers has a least element.                         *)
LEMMA Least ==
  ASSUME NEW T \in SUBSET Nat, T # {}
  PROVE  \E a \in T : \A b \in T : a <= b
<1> DEFINE R == OpToRel(<, Nat)
<1>1. IsWellFoundedOn(R, Nat)
  BY NatLessThanWellFounded
<1>2. PICK a \in T : \A b \in T : ~(<<b, a>> \in R)
  <2> HIDE DEF R
  <2> QED
    BY <1>1, WFMin
<1>3. \A b, c \in Nat : b < c => <<b, c>> \in R
  BY DEF OpToRel
<1> HIDE DEF R
<1>4. \A b \in T : ~(b < a)
  BY <1>2, <1>3
<1> QED
  BY <1>4

(* Network m is n without the first g calls, which everybody has left.     *)
Forgets(n, m, pl, g) ==
  /\ Wired(m)
  /\ \A c \in Comms, r \in Ranks :
       m.made[c][r] + g[c] = n.made[c][r] /\ Left(m, pl, c, r) >= 0
  /\ \A c \in Comms :
       /\ Len(m.calls[c]) + g[c] = Len(n.calls[c])
       /\ \A j \in 1..Len(m.calls[c]) : m.calls[c][j] = n.calls[c][j + g[c]]

LEMMA RetiredFacts ==
  ASSUME NEW n, Wired(n), NEW pl,
         \A c \in Comms, r \in Ranks : Left(n, pl, c, r) >= 0
  PROVE  \E g \in [Comms -> Nat] : Forgets(n, Retired(n, pl), pl, g)
<1> DEFINE g(c) == Gone(n, pl, c)
           m == Retired(n, pl)
<1>1. ASSUME NEW c \in Comms
      PROVE  /\ n.calls[c] \in Seq(NetCalls) /\ Len(n.calls[c]) \in Nat
             /\ \A r \in Ranks : /\ n.made[c][r] \in Nat /\ n.made[c][r] <= Len(n.calls[c])
                                 /\ Left(n, pl, c, r) \in 0..Len(n.calls[c])
                                 /\ Left(n, pl, c, r) <= n.made[c][r]
  <2>1. n.calls[c] \in Seq(NetCalls) /\ Len(n.calls[c]) \in Nat
    BY LenProperties DEF Wired
  <2>2. ASSUME NEW r \in Ranks
        PROVE  /\ n.made[c][r] \in Nat /\ n.made[c][r] <= Len(n.calls[c])
               /\ Left(n, pl, c, r) \in 0..Len(n.calls[c])
               /\ Left(n, pl, c, r) <= n.made[c][r]
    <3>1. n.made[c][r] \in Nat /\ n.made[c][r] <= Len(n.calls[c])
      BY DEF Wired
    <3>2. Left(n, pl, c, r) = n.made[c][r] \/ Left(n, pl, c, r) = n.made[c][r] - 1
      BY DEF Left
    <3> QED
      BY <2>1, <3>1, <3>2
  <2> QED
    BY <2>1, <2>2
<1>2. ASSUME NEW c \in Comms
      PROVE  g(c) \in 0..Len(n.calls[c]) /\ \A r \in Ranks : g(c) <= Left(n, pl, c, r)
  <2> DEFINE lefts == {Left(n, pl, c, r) : r \in Ranks}
  <2>1. lefts \subseteq Nat /\ lefts # {}
    BY <1>1, Parameters
  <2>4. PICK a \in lefts : \A b \in lefts : a <= b
    <3> HIDE DEF lefts
    <3> QED
      BY <2>1, Least
  <2>5. /\ a \in 0..Len(n.calls[c]) /\ \A r \in Ranks : a <= Left(n, pl, c, r)
        /\ \E r \in Ranks : a = Left(n, pl, c, r)
    BY <1>1, <2>4
  <2> QED
    BY <2>5 DEF Gone
<1>4. /\ m.calls = [c \in Comms |-> SubSeq(n.calls[c], g(c) + 1, Len(n.calls[c]))]
      /\ m.made = [c \in Comms |-> [r \in Ranks |-> n.made[c][r] - g(c)]]
      /\ m.crossed = n.crossed
      /\ m = [calls |-> m.calls, made |-> m.made, crossed |-> m.crossed]
  BY DEF Retired
<1> HIDE DEF m
<1>5. \A c \in Comms : g(c) \in Nat
  BY <1>1, <1>2
<1> HIDE DEF g
<1>6. ASSUME NEW c \in Comms
      PROVE  /\ m.calls[c] \in Seq(NetCalls) /\ Len(m.calls[c]) + g(c) = Len(n.calls[c])
             /\ \A j \in 1..Len(m.calls[c]) : m.calls[c][j] = n.calls[c][j + g(c)]
  <2> DEFINE s == n.calls[c]
             a == g(c)
  <2>1. s \in Seq(NetCalls) /\ Len(s) \in Nat /\ a \in Nat /\ a <= Len(s)
    BY <1>1, <1>2
  <2>2. m.calls[c] = SubSeq(s, a + 1, Len(s))
    BY <1>4
  <2> HIDE DEF s, a
  <2>3. \A j \in (a + 1)..Len(s) : s[j] \in NetCalls
    BY <2>1, ElementOfSeq
  <2> DEFINE t == SubSeq(s, a + 1, Len(s))
             l == Len(s)
  <2>4. /\ t \in Seq(NetCalls) /\ Len(t) = IF a + 1 <= l THEN l - (a + 1) + 1 ELSE 0
        /\ \A j \in 1..(l - (a + 1) + 1) : t[j] = s[(a + 1) + j - 1]
    BY <2>1, <2>3, SubSeqProperties
  <2> HIDE DEF t, l
  <2>5. l \in Nat /\ a \in Nat /\ a <= l
    BY <2>1 DEF l
  <2>6. Len(t) + a = l /\ l - (a + 1) + 1 = Len(t)
        /\ \A j \in Int : (a + 1) + j - 1 = j + a
    BY <2>4, <2>5
  <2>7. ASSUME NEW j \in 1..Len(t) PROVE t[j] = s[j + a]
    <3>1. (a + 1) + j - 1 = j + a /\ j \in 1..(l - (a + 1) + 1)
      BY <2>5, <2>6
    <3>2. t[j] = s[(a + 1) + j - 1]
      BY <2>4, <3>1
    <3> QED
      BY <3>1, <3>2
  <2> QED
    BY <2>2, <2>4, <2>6, <2>7 DEF s, a, t, l
<1>7. ASSUME NEW c \in Comms, NEW r \in Ranks
      PROVE  /\ m.made[c][r] \in Nat /\ m.made[c][r] + g(c) = n.made[c][r]
             /\ m.made[c][r] <= Len(m.calls[c]) /\ Left(m, pl, c, r) >= 0
  <2>1. m.made[c][r] = n.made[c][r] - g(c)
    BY <1>4
  <2>2. /\ g(c) \in Nat /\ g(c) <= Left(n, pl, c, r)
        /\ Left(n, pl, c, r) \in Nat /\ Left(n, pl, c, r) <= n.made[c][r]
        /\ n.made[c][r] \in Nat /\ n.made[c][r] <= Len(n.calls[c])
    BY <1>1, <1>2, <1>5
  <2>3. Len(m.calls[c]) + g(c) = Len(n.calls[c]) /\ Len(m.calls[c]) \in Nat
    BY <1>6, LenProperties
  <2>4. Left(m, pl, c, r) = Left(n, pl, c, r) - g(c)
    BY <2>1, <2>2 DEF Left
  <2>5. Len(n.calls[c]) \in Nat
    BY <1>1
  <2> DEFINE a == n.made[c][r]
             b == g(c)
             l == Left(n, pl, c, r)
             x == Len(m.calls[c])
             y == Len(n.calls[c])
  <2>6. /\ b \in Nat /\ b <= l /\ l \in Nat /\ l <= a /\ a \in Nat /\ a <= y
        /\ x + b = y /\ x \in Nat /\ y \in Nat
        /\ m.made[c][r] = a - b /\ Left(m, pl, c, r) = l - b
    BY <2>1, <2>2, <2>3, <2>4, <2>5
  <2> HIDE DEF a, b, l, x, y
  <2>7. a - b \in Nat /\ a - b + b = a /\ a - b <= x /\ l - b >= 0
    BY <2>6
  <2> QED
    BY <2>6, <2>7 DEF a, b, l, x, y
<1>8. Wired(m)
  <2>1. m.calls \in [Comms -> Seq(NetCalls)]
    BY <1>4, <1>6
  <2>2. m.made \in [Comms -> [Ranks -> Nat]]
    <3>1. \A c \in Comms : m.made[c] = [r \in Ranks |-> n.made[c][r] - g(c)]
      BY <1>4
    <3>2. \A c \in Comms : m.made[c] \in [Ranks -> Nat]
      BY <1>7, <3>1
    <3> QED
      BY <1>4, <3>2
  <2> QED
    BY <1>4, <1>7, <2>1, <2>2 DEF Wired
<1> DEFINE gone == [c \in Comms |-> g(c)]
<1>9. gone \in [Comms -> Nat] /\ \A c \in Comms : gone[c] = g(c)
  BY <1>5
<1> HIDE DEF gone
<1> QED
  BY <1>6, <1>7, <1>8, <1>9 DEF m, Forgets

-----------------------------------------------------------------------------
(* Lemmas about a rank's calls. *)

LEMMA WalkTypes ==
  ASSUME NEW n, Wired(n), NEW u, NEW o, NEW tr, Walk(u, n, o, tr)
  PROVE  /\ o["world"] \in Nat /\ o["domain"] \in Nat
         /\ Front(n, o) \in Nat /\ Front(n, o) # 0
         /\ Len(n.calls["world"]) \in Nat /\ Len(n.calls["domain"]) \in Nat
         /\ \A r \in Ranks : /\ n.made["world"][r] \in Nat /\ n.made["domain"][r] \in Nat
                             /\ n.made["world"][r] <= Len(n.calls["world"])
                             /\ n.made["domain"][r] <= Len(n.calls["domain"])
         /\ \A i \in Nat : /\ tr[i] \in Stations /\ tr[i].calls \in SUBSET DomainKinds
                           /\ tr[i].dom \in Int /\ Number(tr[i].calls) \in 0..2
<1>1. "world" \in Comms /\ "domain" \in Comms
  BY DEF Comms
<1>2. \A c \in Comms : n.calls[c] \in Seq(NetCalls) /\ Len(n.calls[c]) \in Nat
  BY LenProperties DEF Wired
<1>3. /\ n.made \in [Comms -> [Ranks -> Nat]] /\ o \in [Comms -> Nat] /\ tr \in [Nat -> Stations]
      /\ \A c \in Comms, r \in Ranks : n.made[c][r] <= Len(n.calls[c])
  BY DEF Wired, Walk
<1>4. n.made["world"][Root] \in Nat /\ o["world"] \in Nat
  BY <1>1, <1>3, Parameters
<1>5. Front(n, o) \in Nat /\ Front(n, o) # 0
  BY <1>4 DEF Front, Index
<1>6. ASSUME NEW i \in Nat
      PROVE  /\ tr[i] \in Stations /\ tr[i].calls \in SUBSET DomainKinds
             /\ tr[i].dom \in Int /\ Number(tr[i].calls) \in 0..2
  <2>1. tr[i] \in Stations
    BY <1>3
  <2> QED
    BY <2>1 DEF Stations, Number
<1> QED
  BY <1>1, <1>2, <1>3, <1>5, <1>6

(* Rank 0 makes the call of the station it is heading to, and so decides   *)
(* the next one.                                                           *)
LEMMA RootCalls ==
  ASSUME NEW m, NEW n, NEW u, NEW o, NEW tr0, NEW tr, Underway(m, n, u, o, tr0, tr, Root),
         Front(m, o) \in Int,
         NEW k \in WorldKinds, NEW p, Sent(k, p), tr[Front(n, o)].kind = k
  PROVE  LET f == Front(n, o)
             n2 == Entered(n, Root, k, p)
             tr2 == [tr EXCEPT ![f + 1] = Onward(u, tr[f], p)]
         IN /\ Underway(m, n2, u, o, tr0, tr2, Root)
            /\ Front(n2, o) = f + 1 /\ Index(n2, o, "world", Root) = f
            /\ Index(n2, o, "domain", Root) = Index(n, o, "domain", Root)
            /\ n2.made["world"][Root] >= 1
            /\ tr2[f] = tr[f] /\ tr2[f + 1] = Onward(u, tr[f], p)
<1> DEFINE f == Front(n, o)
           n2 == Entered(n, Root, k, p)
           next == Onward(u, tr[f], p)
           tr2 == [tr EXCEPT ![f + 1] = next]
           old == n.calls["world"]
           new == n2.calls["world"]
           i == n.made["world"][Root] + 1
           w == o["world"]
<1>1. /\ Wired(n) /\ Walk(u, n, o, tr)
      /\ \A c \in Comms, q \in Ranks \ {Root} : n.made[c][q] = m.made[c][q]
      /\ Front(m, o) <= f
      /\ \A j \in Nat : j <= Front(m, o) => tr[j] = tr0[j]
  BY DEF Underway
<1>2. k \in Kinds /\ p \in Payloads /\ CommOf(k) = "world" /\ Root \in Ranks
      /\ "world" \in Comms /\ "domain" \in Comms /\ "domain" # "world"
  BY Parameters DEF WorldKinds, Kinds, Broadcasts, CommOf, Sent, Comms
<1>3. /\ w \in Nat /\ o["domain"] \in Nat /\ f \in Nat /\ f # 0
      /\ Len(old) \in Nat /\ Len(n.calls["domain"]) \in Nat
      /\ i \in Nat /\ f = i + w /\ n.made["domain"][Root] \in Nat
      /\ \A j \in Nat : /\ tr[j] \in Stations /\ tr[j].calls \in SUBSET DomainKinds
                        /\ tr[j].dom \in Int /\ Number(tr[j].calls) \in 0..2
  <2>1. w \in Nat /\ n.made["world"][Root] \in Nat
    BY <1>1, <1>2, WalkTypes
  <2>2. f = i + w
    BY <2>1 DEF Front, Index
  <2> HIDE DEF f, w, i
  <2>3. n.made["world"][Root] \in Nat /\ n.made["domain"][Root] \in Nat
    BY <1>1, <1>2, WalkTypes
  <2> QED
    BY <1>1, <2>1, <2>2, <2>3, WalkTypes DEF i, f, w
<1>4. /\ \A d \in Comms, q \in Ranks :
           n2.made[d][q] = IF d = "world" /\ q = Root THEN i ELSE n.made[d][q]
      /\ \A d \in Comms \ {"world"} : n2.calls[d] = n.calls[d]
      /\ i \in 1..(Len(old) + 1)
      /\ Len(new) = IF i <= Len(old) THEN Len(old) ELSE i
      /\ \A j \in 1..Len(old) : new[j].kind = old[j].kind
      /\ \A j \in 1..Len(old) \ {i} : new[j].payload = old[j].payload
      /\ new[i].payload = p
      /\ i > Len(old) => new[i].kind = k
      /\ i > Len(old) \/ old[i].kind = k => Wired(n2)
  <2>1. CallMade(n, n2, "world", Root, k, p)
    BY <1>1, <1>2, EnteredFacts
  <2> HIDE DEF n2
  <2> QED
    BY <2>1 DEF CallMade
<1>5. next \in Stations /\ next.dom = tr[f].dom + Number(next.calls)
  BY <1>3, OnwardStation
<1>6. tr2 \in [Nat -> Stations] /\ tr2[f + 1] = next /\ \A j \in Nat : j <= f => tr2[j] = tr[j]
  <2>1. tr \in [Nat -> Stations]
    BY <1>1 DEF Walk
  <2>2. f + 1 \in Nat /\ \A j \in Nat : j <= f => j # f + 1
    <3> HIDE DEF f
    <3> QED
      BY <1>3
  <2>3. next \in Stations
    BY <1>5
  <2> HIDE DEF f, next
  <2> QED
    BY <2>1, <2>2, <2>3
<1>7. /\ \A j \in (w + 1)..(w + Len(old)) :
           /\ j <= f /\ old[j - w].kind = tr[j].kind
           /\ j < f => /\ Sent(tr[j].kind, old[j - w].payload)
                       /\ tr[j + 1] = Onward(u, tr[j], old[j - w].payload)
      /\ InTurn(tr, f) /\ DomainWalk(n, o, tr) /\ o \in [Comms -> Nat]
  BY <1>1 DEF Walk, WorldWalk, Kept, CallAt
<1> HIDE DEF tr2, next, n2, old, new
<1>8. Front(n2, o) = f + 1 /\ Index(n2, o, "world", Root) = f
      /\ Index(n2, o, "domain", Root) = Index(n, o, "domain", Root)
  BY <1>2, <1>3, <1>4 DEF Front, Index
<1> HIDE DEF f, i, w
<1>9. old[i].kind = k \/ i > Len(old)
  <2>1. CASE i <= Len(old)
    <3>1. f \in (w + 1)..(w + Len(old)) /\ f - w = i
      BY <1>3, <1>4, <2>1
    <3> QED
      BY <1>7, <3>1 DEF f
  <2> QED
    BY <1>3, <2>1
<1>10. Wired(n2)
  BY <1>4, <1>9
<1>11. WorldWalk(u, n2, o, tr2)
  <2> SUFFICES ASSUME NEW j \in (w + 1)..(w + Len(new))
               PROVE  /\ j <= f + 1 /\ new[j - w].kind = tr2[j].kind
                      /\ j < f + 1 => /\ Sent(tr2[j].kind, new[j - w].payload)
                                      /\ tr2[j + 1] = Onward(u, tr2[j], new[j - w].payload)
    BY <1>8 DEF WorldWalk, Kept, CallAt, new, w
  <2>1. j \in Nat /\ j <= f /\ (j = f \/ j \in (w + 1)..(w + Len(old)))
    <3>1. /\ w \in Nat /\ Len(old) \in Nat /\ i \in 1..(Len(old) + 1) /\ f = i + w
          /\ Len(new) = Len(old) \/ (Len(new) = i /\ i = Len(old) + 1)
      BY <1>3, <1>4
    <3>2. j \in Nat /\ (j = f \/ j \in (w + 1)..(w + Len(old)))
      BY <3>1
    <3>3. j \in (w + 1)..(w + Len(old)) => j <= f
      BY <1>7
    <3>4. f <= f
      BY <1>3
    <3> QED
      BY <3>2, <3>3, <3>4
  <2>2. tr2[j] = tr[j]
    BY <1>6, <2>1
  <2>3. CASE j = f
    <3>1. j - w = i
      BY <1>3, <2>3
    <3>2. new[i].kind = k /\ new[i].payload = p
      BY <1>3, <1>4, <1>9
    <3>3. tr[f].kind = k
      BY DEF f
    <3>4. tr2[f] = tr[f] /\ tr2[f + 1] = Onward(u, tr[f], p)
      BY <1>6, <2>2, <2>3 DEF next
    <3>5. f <= f + 1
      BY <1>3
    <3> QED
      BY <2>3, <3>1, <3>2, <3>3, <3>4, <3>5
  <2>4. CASE j # f
    <3>1. /\ j < f /\ j + 1 <= f /\ j + 1 \in Nat
          /\ j \in (w + 1)..(w + Len(old)) /\ j - w \in 1..Len(old) /\ j - w # i
      BY <1>3, <2>1, <2>4
    <3>2. new[j - w].kind = old[j - w].kind /\ new[j - w].payload = old[j - w].payload
      BY <1>4, <3>1
    <3>3. tr2[j + 1] = tr[j + 1]
      BY <1>6, <3>1
    <3>4. j <= f + 1
      BY <1>3, <3>1
    <3> QED
      BY <1>7, <2>2, <3>1, <3>2, <3>3, <3>4
  <2> QED
    BY <2>3, <2>4
<1>12. InTurn(tr2, f + 1)
  <2> SUFFICES ASSUME NEW a \in Nat, a <= f + 1, NEW b \in Nat, b < a
               PROVE  tr2[b].dom <= tr2[a].dom - Number(tr2[a].calls)
    BY DEF InTurn
  <2>1. b <= f /\ tr2[b] = tr[b]
    BY <1>3, <1>6
  <2>2. CASE a <= f
    <3>1. tr2[a] = tr[a]
      BY <1>6, <2>2
    <3> QED
      BY <1>7, <2>1, <2>2, <3>1 DEF InTurn
  <2>3. CASE a = f + 1
    <3>1. tr2[a].dom - Number(tr2[a].calls) = tr[f].dom
      <4>1. Number(next.calls) \in Int /\ tr[f].dom \in Int
        BY <1>3 DEF Number
      <4> QED
        BY <1>5, <1>6, <2>3, <4>1
    <3>2. CASE b = f
      BY <1>3, <2>1, <3>1, <3>2
    <3>3. CASE b < f
      <4>1. tr[b].dom <= tr[f].dom - Number(tr[f].calls)
        <5> HIDE DEF f
        <5>1. f \in Nat /\ f <= f
          BY <1>3
        <5> QED
          BY <1>7, <3>3, <5>1 DEF InTurn
      <4>2. tr[b].dom \in Int /\ tr[f].dom \in Int /\ Number(tr[f].calls) \in 0..2
        BY <1>3
      <4> QED
        BY <2>1, <3>1, <4>1, <4>2
    <3> QED
      BY <1>3, <2>1, <3>2, <3>3
  <2> QED
    BY <1>3, <2>2, <2>3
<1>13. DomainWalk(n2, o, tr2)
  <2>0. Kept(n2, o, "domain") = Kept(n, o, "domain")
        /\ \A j : CallAt(n2, o, "domain", j) = CallAt(n, o, "domain", j)
    BY <1>2, <1>4 DEF Kept, CallAt
  <2> SUFFICES ASSUME NEW j \in Kept(n, o, "domain")
               PROVE  /\ j <= tr2[f + 1].dom
                      /\ \A a \in Nat : a <= f + 1 =>
                           \A h \in tr2[a].calls : j = Turn(tr2[a], h)
                             => CallAt(n, o, "domain", j).kind = h
                      /\ CallAt(n, o, "domain", j).kind = "gather"
                           => CallAt(n, o, "domain", j).payload.arg \in Tokens
    BY <1>8, <2>0 DEF DomainWalk
  <2>1. /\ j <= tr[f].dom /\ j \in Int
        /\ \A a \in Nat : a <= f =>
             \A h \in tr[a].calls : j = Turn(tr[a], h) => CallAt(n, o, "domain", j).kind = h
        /\ CallAt(n, o, "domain", j).kind = "gather"
             => CallAt(n, o, "domain", j).payload.arg \in Tokens
    <3>1. j \in Int
      BY <1>3 DEF Kept
    <3>2. DomainWalk(n, o, tr) /\ f = Front(n, o)
      BY <1>7 DEF f
    <3> QED
      BY <3>1, <3>2 DEF DomainWalk
  <2>2. next.calls \in SUBSET DomainKinds /\ Number(next.calls) \in 0..2 /\ next.dom \in Int
    BY <1>5 DEF Stations, Number
  <2>3. j <= next.dom /\ \A h \in next.calls : Turn(next, h) > j
    <3>1. \A h \in next.calls : Turn(next, h) > next.dom - Number(next.calls)
      BY <2>2 DEF Turn, Number, DomainKinds
    <3>2. tr[f].dom \in Int /\ \A h \in next.calls : Turn(next, h) \in Int
      BY <1>3, <2>2 DEF Turn
    <3> QED
      BY <1>5, <2>1, <2>2, <3>1, <3>2
  <2>4. ASSUME NEW a \in Nat, a <= f + 1, NEW h \in tr2[a].calls, j = Turn(tr2[a], h)
        PROVE  CallAt(n, o, "domain", j).kind = h
    <3>1. CASE a <= f
      BY <1>6, <2>1, <2>4, <3>1
    <3>2. CASE a = f + 1
      <4>1. Turn(next, h) \in Int /\ Turn(next, h) > j /\ Turn(next, h) = j
        BY <1>6, <2>2, <2>3, <2>4, <3>2 DEF Turn
      <4> QED
        BY <2>1, <4>1
    <3> QED
      BY <1>3, <2>4, <3>1, <3>2
  <2> QED
    BY <1>6, <2>1, <2>3, <2>4
<1>14. Walk(u, n2, o, tr2)
  BY <1>6, <1>7, <1>8, <1>11, <1>12, <1>13 DEF Walk
<1>15. Underway(m, n2, u, o, tr0, tr2, Root)
  <2>1. \A c \in Comms, q \in Ranks \ {Root} : n2.made[c][q] = m.made[c][q]
    BY <1>1, <1>4
  <2>2. Front(m, o) <= Front(n2, o)
    BY <1>1, <1>3, <1>8
  <2>3. \A j \in Nat : j <= Front(m, o) => tr2[j] = tr0[j]
    BY <1>1, <1>3, <1>6
  <2> QED
    BY <1>10, <1>14, <2>1, <2>2, <2>3 DEF Underway
<1>16. n2.made["world"][Root] >= 1
  BY <1>2, <1>4
<1> QED
  BY <1>3, <1>6, <1>8, <1>15, <1>16 DEF tr2, next, n2, f

(* A worker makes the call of its next station.                            *)
LEMMA WorkerCalls ==
  ASSUME NEW m, NEW n, NEW u, NEW o, NEW tr0, NEW tr, NEW r \in Workers,
         Underway(m, n, u, o, tr0, tr, r),
         NEW k \in WorldKinds, NEW p \in Payloads,
         Index(n, o, "world", r) + 1 <= Front(n, o),
         tr[Index(n, o, "world", r) + 1].kind = k
  PROVE  LET n2 == Entered(n, r, k, p)
         IN /\ Underway(m, n2, u, o, tr0, tr, r)
            /\ Front(n2, o) = Front(n, o)
            /\ Index(n2, o, "world", r) = Index(n, o, "world", r) + 1
            /\ Index(n2, o, "domain", r) = Index(n, o, "domain", r)
            /\ n2.made["world"][r] >= 1
<1> DEFINE f == Front(n, o)
           n2 == Entered(n, r, k, p)
           old == n.calls["world"]
           new == n2.calls["world"]
           i == n.made["world"][r] + 1
           w == o["world"]
           a == Index(n, o, "world", r) + 1
<1>1. /\ Wired(n) /\ Walk(u, n, o, tr)
      /\ \A c \in Comms, q \in Ranks \ {r} : n.made[c][q] = m.made[c][q]
      /\ Front(m, o) <= f
      /\ \A j \in Nat : j <= Front(m, o) => tr[j] = tr0[j]
  BY DEF Underway
<1>2. k \in Kinds /\ CommOf(k) = "world" /\ Root \in Ranks /\ r \in Ranks /\ r # Root
      /\ "world" \in Comms /\ "domain" \in Comms /\ "domain" # "world"
  BY Parameters DEF WorldKinds, Kinds, Broadcasts, CommOf, Comms, Workers
<1>3. /\ w \in Nat /\ f \in Nat /\ Len(old) \in Nat
      /\ i \in Nat /\ a = i + w /\ a <= f /\ tr[a].kind = k
  <2>1. w \in Nat /\ n.made["world"][r] \in Nat
    BY <1>1, <1>2, WalkTypes
  <2>2. a = i + w
    BY <2>1 DEF Index
  <2> QED
    BY <1>1, <2>1, <2>2, WalkTypes
<1>4. /\ \A d \in Comms, q \in Ranks :
           n2.made[d][q] = IF d = "world" /\ q = r THEN i ELSE n.made[d][q]
      /\ \A d \in Comms \ {"world"} : n2.calls[d] = n.calls[d]
      /\ i \in 1..(Len(old) + 1)
      /\ Len(new) = IF i <= Len(old) THEN Len(old) ELSE i
      /\ \A j \in 1..Len(old) : new[j].kind = old[j].kind
      /\ r # Root => \A j \in 1..Len(old) : new[j].payload = old[j].payload
      /\ i > Len(old) => new[i].kind = k
      /\ i > Len(old) \/ old[i].kind = k => Wired(n2)
  <2>1. CallMade(n, n2, "world", r, k, p)
    BY <1>1, <1>2, EnteredFacts
  <2> HIDE DEF n2
  <2> QED
    BY <2>1 DEF CallMade
<1>5. /\ \A j \in (w + 1)..(w + Len(old)) :
           /\ j <= f /\ old[j - w].kind = tr[j].kind
           /\ j < f => /\ Sent(tr[j].kind, old[j - w].payload)
                       /\ tr[j + 1] = Onward(u, tr[j], old[j - w].payload)
      /\ InTurn(tr, f) /\ DomainWalk(n, o, tr) /\ o \in [Comms -> Nat] /\ tr \in [Nat -> Stations]
  BY <1>1 DEF Walk, WorldWalk, Kept, CallAt
<1>6. n.made["world"][Root] + 1 + w = f /\ n.made["world"][Root] \in Nat
      /\ n.made["world"][Root] <= Len(old)
  <2>1. w \in Nat /\ n.made["world"][Root] \in Nat /\ n.made["world"][Root] <= Len(old)
    BY <1>1, <1>2, WalkTypes
  <2> QED
    BY <2>1 DEF Front, Index
<1> HIDE DEF n2, old, new
<1>7. /\ Front(n2, o) = f /\ Index(n2, o, "world", r) = a
      /\ Index(n2, o, "domain", r) = Index(n, o, "domain", r)
  BY <1>2, <1>3, <1>4 DEF Front, Index
<1> HIDE DEF f, i, w, a
<1>8. old[i].kind = k \/ i > Len(old)
  <2>1. CASE i <= Len(old)
    <3>1. a \in (w + 1)..(w + Len(old)) /\ a - w = i
      BY <1>3, <1>4, <2>1
    <3> QED
      BY <1>3, <1>5, <3>1
  <2> QED
    BY <1>3, <2>1
<1>9. Wired(n2)
  BY <1>4, <1>8
<1>10. WorldWalk(u, n2, o, tr)
  <2> SUFFICES ASSUME NEW j \in (w + 1)..(w + Len(new))
               PROVE  /\ j <= f /\ new[j - w].kind = tr[j].kind
                      /\ j < f => /\ Sent(tr[j].kind, new[j - w].payload)
                                  /\ tr[j + 1] = Onward(u, tr[j], new[j - w].payload)
    BY <1>7 DEF WorldWalk, Kept, CallAt, new, w
  <2>1. CASE j \in (w + 1)..(w + Len(old))
    <3>1. j - w \in 1..Len(old)
      BY <1>3, <2>1
    <3>2. new[j - w].kind = old[j - w].kind /\ new[j - w].payload = old[j - w].payload
      BY <1>2, <1>4, <3>1
    <3> QED
      BY <1>5, <2>1, <3>2
  <2>2. CASE j \notin (w + 1)..(w + Len(old))
    <3>1. j = a /\ j - w = i /\ i > Len(old)
      BY <1>3, <1>4, <2>2
    <3>2. ~(j < f)
      <4>1. f <= Len(old) + 1 + w
        BY <1>3, <1>6
      <4> QED
        BY <1>3, <3>1, <4>1
    <3> QED
      BY <1>3, <1>4, <3>1, <3>2
  <2> QED
    BY <2>1, <2>2
<1>11. DomainWalk(n2, o, tr)
  <2>1. Kept(n2, o, "domain") = Kept(n, o, "domain")
        /\ \A j : CallAt(n2, o, "domain", j) = CallAt(n, o, "domain", j)
    BY <1>2, <1>4 DEF Kept, CallAt
  <2> QED
    BY <1>5, <1>7, <2>1 DEF DomainWalk, f
<1>12. Walk(u, n2, o, tr)
  BY <1>5, <1>7, <1>10, <1>11 DEF Walk
<1>13. Underway(m, n2, u, o, tr0, tr, r)
  <2>1. \A c \in Comms, q \in Ranks \ {r} : n2.made[c][q] = m.made[c][q]
    BY <1>1, <1>4
  <2> QED
    BY <1>1, <1>7, <1>9, <1>12, <2>1 DEF Underway
<1>14. n2.made["world"][r] >= 1
  BY <1>2, <1>4
<1> QED
  BY <1>7, <1>13, <1>14 DEF n2, f, a

(* A rank makes a domain call of the station it is heading to.             *)
LEMMA DomainCalls ==
  ASSUME NEW m, NEW n, NEW u, NEW o, NEW tr0, NEW tr, NEW r \in Ranks,
         Underway(m, n, u, o, tr0, tr, r),
         NEW k \in DomainKinds, NEW p \in Payloads, k = "gather" => p.arg \in Tokens,
         NEW a \in Nat, a <= Front(n, o), k \in tr[a].calls,
         Turn(tr[a], k) = Index(n, o, "domain", r) + 1
  PROVE  LET n2 == Entered(n, r, k, p)
         IN /\ Underway(m, n2, u, o, tr0, tr, r)
            /\ Front(n2, o) = Front(n, o)
            /\ Index(n2, o, "world", r) = Index(n, o, "world", r)
            /\ Index(n2, o, "domain", r) = Turn(tr[a], k)
            /\ n2.made["domain"][r] >= 1
<1> DEFINE f == Front(n, o)
           n2 == Entered(n, r, k, p)
           old == n.calls["domain"]
           new == n2.calls["domain"]
           i == n.made["domain"][r] + 1
           w == o["domain"]
           t == Turn(tr[a], k)
<1>1. /\ Wired(n) /\ Walk(u, n, o, tr)
      /\ \A c \in Comms, q \in Ranks \ {r} : n.made[c][q] = m.made[c][q]
      /\ Front(m, o) <= f
      /\ \A j \in Nat : j <= Front(m, o) => tr[j] = tr0[j]
  BY DEF Underway
<1>2. k \in Kinds /\ CommOf(k) = "domain" /\ Root \in Ranks
      /\ "world" \in Comms /\ "domain" \in Comms /\ "domain" # "world"
  BY Parameters DEF DomainKinds, Kinds, Broadcasts, CommOf, Comms
<1>3. /\ w \in Nat /\ f \in Nat /\ Len(old) \in Nat /\ i \in Nat /\ t = i + w
      /\ \A j \in Nat : /\ tr[j] \in Stations /\ tr[j].calls \in SUBSET DomainKinds
                        /\ tr[j].dom \in Int /\ Number(tr[j].calls) \in 0..2
  <2>1. w \in Nat /\ n.made["domain"][r] \in Nat
    BY <1>1, <1>2, WalkTypes
  <2>2. t = i + w
    BY <2>1 DEF Index
  <2> HIDE DEF t
  <2> QED
    BY <1>1, <2>1, <2>2, WalkTypes
<1>4. /\ \A d \in Comms, q \in Ranks :
           n2.made[d][q] = IF d = "domain" /\ q = r THEN i ELSE n.made[d][q]
      /\ \A d \in Comms \ {"domain"} : n2.calls[d] = n.calls[d]
      /\ i \in 1..(Len(old) + 1)
      /\ Len(new) = IF i <= Len(old) THEN Len(old) ELSE i
      /\ \A j \in 1..Len(old) : new[j].kind = old[j].kind
      /\ \A j \in 1..Len(old) \ {i} : new[j].payload = old[j].payload
      /\ r # Root => \A j \in 1..Len(old) : new[j].payload = old[j].payload
      /\ r = Root \/ i > Len(old) => new[i].payload = p
      /\ i > Len(old) => new[i].kind = k
      /\ i > Len(old) \/ old[i].kind = k => Wired(n2)
  <2>1. CallMade(n, n2, "domain", r, k, p)
    BY <1>1, <1>2, EnteredFacts
  <2> HIDE DEF n2
  <2> QED
    BY <2>1 DEF CallMade
<1>5. InTurn(tr, f) /\ DomainWalk(n, o, tr) /\ WorldWalk(u, n, o, tr)
      /\ o \in [Comms -> Nat] /\ tr \in [Nat -> Stations]
  BY <1>1 DEF Walk
<1>6. \A j \in (w + 1)..(w + Len(old)) :
        /\ j <= tr[f].dom
        /\ \A b \in Nat : b <= f =>
             \A h \in tr[b].calls : j = Turn(tr[b], h) => old[j - w].kind = h
        /\ old[j - w].kind = "gather" => old[j - w].payload.arg \in Tokens
  BY <1>5 DEF DomainWalk, Kept, CallAt
<1> HIDE DEF n2, old, new
<1>7. /\ Front(n2, o) = f /\ Index(n2, o, "world", r) = Index(n, o, "world", r)
      /\ Index(n2, o, "domain", r) = t
  BY <1>2, <1>3, <1>4 DEF Front, Index
<1> HIDE DEF f, i, w
<1>8. t <= tr[f].dom /\ t \in Nat
  <2>1. t <= tr[a].dom /\ t \in Nat
    <3>1. tr[a].dom \in Int
      BY <1>3
    <3>2. t <= tr[a].dom
      BY <3>1 DEF Turn
    <3> QED
      BY <1>3, <3>2
  <2>2. CASE a = f
    BY <2>1, <2>2
  <2>3. CASE a < f
    <3>1. tr[a].dom <= tr[f].dom - Number(tr[f].calls)
      <4>1. f \in Nat /\ f <= f
        BY <1>3
      <4> QED
        BY <1>5, <2>3, <4>1 DEF InTurn
    <3>2. tr[a].dom \in Int /\ tr[f].dom \in Int /\ Number(tr[f].calls) \in 0..2
      BY <1>3
    <3> HIDE DEF t
    <3> QED
      BY <2>1, <3>1, <3>2
  <2> QED
    BY <1>3, <2>2, <2>3 DEF f
<1>9. old[i].kind = k \/ i > Len(old)
  <2>1. CASE i <= Len(old)
    <3>1. t \in (w + 1)..(w + Len(old)) /\ t - w = i
      <4> HIDE DEF t
      <4> QED
        BY <1>3, <1>4, <2>1
    <3>2. a <= f
      BY DEF f
    <3> QED
      BY <1>6, <3>1, <3>2
  <2> QED
    BY <1>3, <2>1
<1>10. Wired(n2)
  BY <1>4, <1>9
<1>11. DomainWalk(n2, o, tr)
  <2> SUFFICES ASSUME NEW j \in (w + 1)..(w + Len(new))
               PROVE  /\ j <= tr[f].dom
                      /\ \A b \in Nat : b <= f =>
                           \A h \in tr[b].calls : j = Turn(tr[b], h) => new[j - w].kind = h
                      /\ new[j - w].kind = "gather" => new[j - w].payload.arg \in Tokens
    BY <1>7 DEF DomainWalk, Kept, CallAt, new, w
  <2>1. CASE j = t
    <3>1. j - w = i
      <4> HIDE DEF t
      <4> QED
        BY <1>3, <2>1
    <3>2. new[i].kind = k
      <4>1. CASE i <= Len(old)
        <5>1. i \in 1..Len(old)
          BY <1>4, <4>1
        <5> QED
          BY <1>3, <1>4, <1>9, <4>1, <5>1
      <4>2. CASE i > Len(old)
        BY <1>4, <4>2
      <4> QED
        BY <1>3, <4>1, <4>2
    <3>3. ASSUME NEW b \in Nat, b <= f, NEW h \in tr[b].calls, t = Turn(tr[b], h)
          PROVE  h = k
      <4>1. a <= f /\ f \in Nat
        BY <1>3 DEF f
      <4> QED
        BY <1>5, <3>3, <4>1, TurnsApart
    <3>4. k = "gather" => new[i].payload.arg \in Tokens
      <4>1. CASE r = Root \/ i > Len(old)
        BY <1>4, <4>1
      <4>2. CASE r # Root /\ i <= Len(old)
        <5>1. i \in 1..Len(old) /\ old[i].kind = k /\ new[i].payload = old[i].payload
          BY <1>3, <1>4, <1>9, <4>2
        <5>2. t \in (w + 1)..(w + Len(old)) /\ t - w = i
          <6> HIDE DEF t
          <6> QED
            BY <1>3, <5>1
        <5> QED
          BY <1>6, <5>1, <5>2
      <4> QED
        BY <1>3, <4>1, <4>2
    <3> QED
      BY <1>8, <2>1, <3>1, <3>2, <3>3, <3>4
  <2>2. CASE j # t
    <3>1. j \in (w + 1)..(w + Len(old)) /\ j - w \in 1..Len(old) \ {i}
      <4> HIDE DEF t
      <4> QED
        BY <1>3, <1>4, <2>2
    <3>2. new[j - w].kind = old[j - w].kind /\ new[j - w].payload = old[j - w].payload
      BY <1>4, <3>1
    <3> QED
      BY <1>6, <3>1, <3>2
  <2> QED
    BY <2>1, <2>2
<1>12. WorldWalk(u, n2, o, tr)
  <2>1. Kept(n2, o, "world") = Kept(n, o, "world")
        /\ \A j : CallAt(n2, o, "world", j) = CallAt(n, o, "world", j)
    BY <1>2, <1>4 DEF Kept, CallAt
  <2> QED
    BY <1>5, <1>7, <2>1 DEF WorldWalk, f
<1>13. Walk(u, n2, o, tr)
  BY <1>5, <1>7, <1>11, <1>12 DEF Walk
<1>14. Underway(m, n2, u, o, tr0, tr, r)
  <2>1. \A c \in Comms, q \in Ranks \ {r} : n2.made[c][q] = m.made[c][q]
    BY <1>1, <1>4
  <2> QED
    BY <1>1, <1>7, <1>10, <1>13, <2>1 DEF Underway
<1>15. n2.made["domain"][r] >= 1
  BY <1>2, <1>4
<1> QED
  BY <1>7, <1>14, <1>15 DEF n2, f

LEMMA SetsOut ==
  ASSUME NEW n, NEW u, NEW o, NEW tr, NEW r, Wired(n), Walk(u, n, o, tr)
  PROVE  Underway(n, n, u, o, tr, tr, r)
<1>1. Front(n, o) \in Nat
  BY WalkTypes
<1> QED
  BY <1>1 DEF Underway

(* A rank that has come to its next place is together with the others,     *)
(* whatever the network forgets.                                           *)
LEMMA Arrives ==
  ASSUME NEW u, NEW m, NEW o, NEW tr, NEW pl, NEW ts, NEW rs,
         Together(u, m, o, tr, pl, ts, rs),
         NEW r \in Ranks, NEW n, NEW tr2, Underway(m, n, u, o, tr, tr2, r),
         NEW pl2, NEW ts2, NEW rs2,
         \A q \in Ranks \ {r} : pl2[q] = pl[q] /\ ts2[q] = ts[q] /\ rs2[q] = rs[q],
         pl2[r] \in Kinds => n.made[CommOf(pl2[r])][r] >= 1,
         Stands(u, tr2, Front(n, o), Index(n, o, "world", r), Index(n, o, "domain", r),
                pl2[r], ts2[r], rs2[r])
  PROVE  \E o2 : Together(u, Retired(n, pl2), o2, tr2, pl2, ts2, rs2)
<1>1. /\ Wired(n) /\ Walk(u, n, o, tr2) /\ Wired(m) /\ Walk(u, m, o, tr)
      /\ \A c \in Comms, q \in Ranks \ {r} : n.made[c][q] = m.made[c][q]
      /\ Front(m, o) <= Front(n, o)
      /\ \A i \in Nat : i <= Front(m, o) => tr2[i] = tr[i]
      /\ \A c \in Comms, q \in Ranks : Left(m, pl, c, q) >= 0
  BY DEF Underway, Together
<1>2. /\ o \in [Comms -> Nat] /\ n.made \in [Comms -> [Ranks -> Nat]]
      /\ "world" \in Comms /\ "domain" \in Comms
      /\ \A c \in Comms : n.calls[c] \in Seq(NetCalls) /\ Len(n.calls[c]) \in Nat
  BY <1>1, LenProperties DEF Wired, Walk, Comms
<1>3. ASSUME NEW c \in Comms, NEW q \in Ranks
      PROVE  Left(n, pl2, c, q) >= 0
  <2>1. CASE q # r
    <3>1. Left(n, pl2, c, q) = Left(m, pl, c, q)
      BY <1>1, <2>1 DEF Left
    <3> QED
      BY <1>1, <3>1
  <2>2. CASE q = r
    <3>1. n.made[c][r] \in Nat
      BY <1>2
    <3> QED
      BY <2>2, <3>1 DEF Left
  <2> QED
    BY <2>1, <2>2
<1> DEFINE x == Retired(n, pl2)
<1> HIDE DEF x
<1>3a. PICK g \in [Comms -> Nat] : Forgets(n, x, pl2, g)
  BY <1>1, <1>3, RetiredFacts DEF x
<1>4. /\ Wired(x)
      /\ \A c \in Comms, q \in Ranks :
           x.made[c][q] + g[c] = n.made[c][q] /\ Left(x, pl2, c, q) >= 0
      /\ \A c \in Comms :
           /\ Len(x.calls[c]) + g[c] = Len(n.calls[c])
           /\ \A j \in 1..Len(x.calls[c]) : x.calls[c][j] = n.calls[c][j + g[c]]
  BY <1>3a DEF Forgets
<1> DEFINE o2 == [c \in Comms |-> o[c] + g[c]]
<1>5. o2 \in [Comms -> Nat] /\ \A c \in Comms : o2[c] = o[c] + g[c] /\ o[c] \in Nat /\ g[c] \in Nat
  BY <1>2
<1> HIDE DEF o2
<1>6. ASSUME NEW c \in Comms, NEW q \in Ranks
      PROVE  Index(x, o2, c, q) = Index(n, o, c, q)
  <2>1. x.made[c][q] + g[c] = n.made[c][q] /\ x.made[c][q] \in Nat
    BY <1>4 DEF Wired
  <2>2. o2[c] = o[c] + g[c] /\ o[c] \in Nat /\ g[c] \in Nat
    BY <1>5
  <2>3. \A a, b, h \in Nat : a + (h + b) = (a + b) + h
    OBVIOUS
  <2> QED
    BY <2>1, <2>2, <2>3 DEF Index
<1>7. Front(x, o2) = Front(n, o)
  BY <1>2, <1>6, Parameters DEF Front
<1>8. ASSUME NEW c \in Comms, NEW j \in Kept(x, o2, c)
      PROVE  j \in Kept(n, o, c) /\ CallAt(x, o2, c, j) = CallAt(n, o, c, j)
  <2> DEFINE a == o[c]
             b == g[c]
             l == Len(x.calls[c])
  <2>1. /\ a \in Nat /\ b \in Nat /\ o2[c] = a + b /\ l + b = Len(n.calls[c])
        /\ \A h \in 1..l : x.calls[c][h] = n.calls[c][h + b]
    BY <1>4, <1>5
  <2>2. l \in Nat
    BY <1>4, LenProperties DEF Wired
  <2>3. j \in ((a + b) + 1)..((a + b) + l)
    BY <2>1 DEF Kept
  <2> HIDE DEF a, b, l
  <2>4. j - (a + b) \in 1..l /\ (j - (a + b)) + b = j - a /\ j \in (a + 1)..(a + (l + b))
    BY <2>1, <2>2, <2>3
  <2>5. x.calls[c][j - (a + b)] = n.calls[c][j - a]
    BY <2>1, <2>4
  <2> QED
    BY <2>1, <2>4, <2>5 DEF Kept, CallAt, a
<1>9. Walk(u, x, o2, tr2)
  <2>1. WorldWalk(u, x, o2, tr2)
    <3>1. WorldWalk(u, n, o, tr2)
      BY <1>1 DEF Walk
    <3> QED
      BY <1>2, <1>7, <1>8, <3>1 DEF WorldWalk
  <2>2. DomainWalk(x, o2, tr2)
    <3>1. DomainWalk(n, o, tr2)
      BY <1>1 DEF Walk
    <3> SUFFICES ASSUME NEW j \in Kept(x, o2, "domain")
                 PROVE  LET d == CallAt(n, o, "domain", j) IN
                        /\ j <= tr2[Front(n, o)].dom
                        /\ \A a \in Nat : a <= Front(n, o) =>
                             \A k \in tr2[a].calls : j = Turn(tr2[a], k) => d.kind = k
                        /\ d.kind = "gather" => d.payload.arg \in Tokens
      BY <1>2, <1>7, <1>8 DEF DomainWalk
    <3>2. j \in Kept(n, o, "domain")
      BY <1>2, <1>8
    <3> QED
      BY <3>1, <3>2 DEF DomainWalk
  <2> QED
    BY <1>1, <1>5, <1>7, <2>1, <2>2 DEF Walk
<1>10. ASSUME NEW q \in Ranks
       PROVE  Stands(u, tr2, Front(x, o2), Index(x, o2, "world", q), Index(x, o2, "domain", q),
                     pl2[q], ts2[q], rs2[q])
  <2>1. Index(x, o2, "world", q) = Index(n, o, "world", q)
        /\ Index(x, o2, "domain", q) = Index(n, o, "domain", q)
    BY <1>2, <1>6
  <2>2. CASE q = r
    BY <1>7, <2>1, <2>2
  <2>3. CASE q # r
    <3> DEFINE i == Index(m, o, "world", q)
               d == Index(m, o, "domain", q)
    <3>1. Index(n, o, "world", q) = i /\ Index(n, o, "domain", q) = d
      BY <1>1, <1>2, <2>3 DEF Index
    <3>2. i \in Nat
      <4>1. m.made["world"][q] \in Nat /\ o["world"] \in Nat
        BY <1>1, WalkTypes
      <4> QED
        BY <4>1 DEF Index
    <3>3. Stands(u, tr, Front(m, o), i, d, pl[q], ts[q], rs[q])
      BY DEF Together
    <3>4. Front(m, o) \in Nat /\ Front(n, o) \in Nat
      BY <1>1, WalkTypes
    <3> HIDE DEF i, d
    <3>5. i <= Front(m, o) => tr2[i] = tr[i]
      BY <1>1, <3>2
    <3>6. i + 1 <= Front(m, o) => tr2[i + 1] = tr[i + 1]
      BY <1>1, <3>2
    <3>7. Stands(u, tr2, Front(n, o), i, d, pl[q], ts[q], rs[q])
      <4>1. i <= Front(n, o) /\ i <= Front(m, o)
        BY <1>1, <3>2, <3>3, <3>4 DEF Stands
      <4>2. i + 1 <= Front(m, o) => i + 1 <= Front(n, o)
        BY <1>1, <3>2, <3>4
      <4> QED
        BY <3>3, <3>5, <3>6, <4>1, <4>2 DEF Stands
    <3> QED
      BY <1>7, <2>1, <2>3, <3>1, <3>7
  <2> QED
    BY <2>2, <2>3
<1>11. \A c \in Comms, q \in Ranks : Left(x, pl2, c, q) >= 0
  BY <1>4
<1>12. Wired(x)
  BY <1>4
<1> QED
  BY <1>9, <1>10, <1>11, <1>12 DEF Together, x

-----------------------------------------------------------------------------
(* The inductive invariant. *)

Types ==
  /\ setup \in Setups
  /\ at \in [Ranks -> Places] /\ at[Root] \notin {"command", "token"}
  /\ \A w \in Workers : at[w] # "client"
  /\ task \in [Ranks -> Payloads] /\ runner \in [Ranks -> Runners]
  /\ \A w \in Workers : runner[w].sampling.penalties = FALSE
  /\ client \in Clients /\ prompt \in Prompts \cup {<<>>}

(* Everything told is fed but the last token, or everything is.            *)
Behind(s) == s.ready = FALSE /\ prompt \o s.history = Append(s.fed, s.last)
Caught(s) == prompt \o s.history = s.fed

(* Rank 0's handler, its runner and the call it is in belong together.     *)
RootServes ==
  /\ client.phase \in {"sampling", "prefill", "decode"} =>
       client.sampling \in setup.samplings /\ client.prompt \in Prompts /\ client.prompt = prompt
  /\ client.phase \in {"prefill", "decode"} => runner[Root].sampling = client.sampling
  /\ client.phase \in {"sampling", "prefill"} =>
       runner[Root].fed = <<>> /\ runner[Root].history = <<>> /\ runner[Root].ready = FALSE
  /\ at[Root] # "client" => client.phase \in {"prefill", "decode", "exited"}
  /\ at[Root] \in {"gather", "fence"} => client.phase = "decode"
  /\ at[Root] = "forward" =>
       \/ client.phase = "prefill" /\ task[Root].cmd = "prefill" /\ task[Root].arg = prompt
          /\ runner[Root].last = prompt[Len(prompt)]
       \/ client.phase = "decode" /\ task[Root].cmd # "prefill" /\ Behind(runner[Root])
  /\ client.phase = "decode" =>
       CASE at[Root] = "client" ->
              Behind(runner[Root]) \/ (runner[Root].ready = TRUE /\ Caught(runner[Root]))
         [] at[Root] = "gather" -> runner[Root].ready = FALSE /\ Caught(runner[Root])
         [] at[Root] = "fence" ->
              IF task[Root].cmd = "force" THEN Behind(runner[Root])
              ELSE runner[Root].ready = FALSE /\ Caught(runner[Root])
         [] OTHER -> TRUE

OnOneWalk == \E o, tr : Together(setup, net, o, tr, at, task, runner)

Inv == Types /\ RootServes /\ OnOneWalk

-----------------------------------------------------------------------------
(* Lemmas about where a step of one rank ends. *)

OnlyMoves(r) ==
  setup' = setup /\ \A q \in Ranks \ {r} : task'[q] = task[q] /\ runner'[q] = runner[q]

LEMMA Places0 ==
  /\ WorldKinds \subseteq Kinds /\ DomainKinds \subseteq Kinds /\ Kinds \subseteq Places
  /\ Kinds = WorldKinds \cup DomainKinds /\ "client" \notin Kinds /\ "exited" \notin Kinds
  /\ \A k \in WorldKinds : CommOf(k) = "world" /\ k \notin DomainKinds
  /\ \A k \in DomainKinds : CommOf(k) = "domain" /\ k \notin WorldKinds
  /\ Nothing \in Payloads /\ "client" \in Places /\ "exited" \in Places
  /\ \A k \in {"gather", "token"} : \A t \in Tokens : [cmd |-> k, arg |-> t] \in Payloads
<1>1. /\ WorldKinds \subseteq Kinds /\ DomainKinds \subseteq Kinds /\ Kinds \subseteq Places
      /\ Kinds = WorldKinds \cup DomainKinds /\ "client" \notin Kinds /\ "exited" \notin Kinds
      /\ "client" \in Places /\ "exited" \in Places
  BY DEF WorldKinds, DomainKinds, Kinds, Broadcasts, Places
<1>2. \A k \in WorldKinds : CommOf(k) = "world" /\ k \notin DomainKinds
  BY DEF WorldKinds, DomainKinds, CommOf
<1>3. \A k \in DomainKinds : CommOf(k) = "domain" /\ k \notin WorldKinds
  BY DEF WorldKinds, DomainKinds, CommOf
<1>4. 0 \in Args /\ Tokens \subseteq Args
  BY DEF Args
<1>5. \A k \in Cmds : \A a \in Args : [cmd |-> k, arg |-> a] \in Payloads
  BY DEF Payloads
<1>6. Nothing \in Payloads /\ {"gather", "token"} \subseteq Cmds
  BY <1>4, <1>5 DEF Nothing, Cmds
<1> QED
  BY <1>1, <1>2, <1>3, <1>4, <1>5, <1>6

LEMMA Comes ==
  ASSUME Types, NEW r \in Ranks, OnlyMoves(r),
         NEW o, NEW tr, Together(setup, net, o, tr, at, task, runner),
         NEW n, NEW tr2, Underway(net, n, setup, o, tr, tr2, r),
         NEW place, Goes(r, n, place),
         place \in Kinds => n.made[CommOf(place)][r] >= 1,
         Stands(setup, tr2, Front(n, o), Index(n, o, "world", r), Index(n, o, "domain", r),
                place, task'[r], runner'[r])
  PROVE  OnOneWalk'
<1>1. at' = [at EXCEPT ![r] = place] /\ net' = Retired(n, at')
  BY DEF Goes
<1>2. at'[r] = place /\ \A q \in Ranks \ {r} : at'[q] = at[q]
  BY <1>1 DEF Types
<1>3. \A q \in Ranks \ {r} : at'[q] = at[q] /\ task'[q] = task[q] /\ runner'[q] = runner[q]
  BY <1>2 DEF OnlyMoves
<1> DEFINE pl2 == at'
           ts2 == task'
           rs2 == runner'
<1>4. \E o2 : Together(setup, Retired(n, pl2), o2, tr2, pl2, ts2, rs2)
  <2> HIDE DEF pl2, ts2, rs2
  <2>1. \A q \in Ranks \ {r} : pl2[q] = at[q] /\ ts2[q] = task[q] /\ rs2[q] = runner[q]
    BY <1>3 DEF pl2, ts2, rs2
  <2>2. pl2[r] \in Kinds => n.made[CommOf(pl2[r])][r] >= 1
    BY <1>2 DEF pl2
  <2>3. Stands(setup, tr2, Front(n, o), Index(n, o, "world", r), Index(n, o, "domain", r),
               pl2[r], ts2[r], rs2[r])
    BY <1>2 DEF pl2, ts2, rs2
  <2> QED
    BY <2>1, <2>2, <2>3, Arrives
<1>5. setup' = setup
  BY DEF OnlyMoves
<1> QED
  BY <1>1, <1>4, <1>5 DEF OnOneWalk

(* To the station it is heading to.                                        *)
LEMMA ToWorld ==
  ASSUME Types, NEW r \in Ranks, OnlyMoves(r),
         NEW o, NEW tr, Together(setup, net, o, tr, at, task, runner),
         NEW n, NEW tr2, Underway(net, n, setup, o, tr, tr2, r),
         NEW k \in WorldKinds, NEW p \in Payloads, r = Root => Sent(k, p),
         NEW i \in Nat, i = Index(n, o, "world", r), i + 1 <= Front(n, o),
         tr2[i + 1].kind = k, tr2[i + 1].task = task'[r],
         tr2[i + 1].core = Shared(runner'[r]), tr2[i + 1].dom = Index(n, o, "domain", r),
         Goes(r, Entered(n, r, k, p), k)
  PROVE  OnOneWalk'
<1> DEFINE n2 == Entered(n, r, k, p)
<1>1. CommOf(k) = "world" /\ k \notin DomainKinds \cup {"client"}
  BY Places0, "client" \notin WorldKinds DEF WorldKinds
<1>2. CASE r = Root
  <2> DEFINE f == Front(n, o)
             tr3 == [tr2 EXCEPT ![f + 1] = Onward(setup, tr2[f], p)]
  <2>1. f = i + 1
    BY <1>2 DEF Front
  <2>2. Front(net, o) \in Int
    BY WalkTypes DEF Together
  <2>3. /\ Underway(net, n2, setup, o, tr, tr3, Root)
        /\ Front(n2, o) = f + 1 /\ Index(n2, o, "world", Root) = f
        /\ Index(n2, o, "domain", Root) = Index(n, o, "domain", Root)
        /\ n2.made["world"][Root] >= 1 /\ tr3[f] = tr2[f]
    BY <1>2, <2>1, <2>2, RootCalls
  <2> HIDE DEF n2, tr3, f
  <2>4. Stands(setup, tr3, Front(n2, o), f, Index(n2, o, "domain", r), k, task'[r], runner'[r])
    BY <1>1, <1>2, <2>1, <2>3 DEF Stands
  <2> QED
    BY <1>1, <1>2, <2>3, <2>4, Comes DEF n2
<1>3. CASE r # Root
  <2>0. r \in Workers
    BY <1>3 DEF Workers
  <2>1. /\ Underway(net, n2, setup, o, tr, tr2, r)
        /\ Front(n2, o) = Front(n, o) /\ Index(n2, o, "world", r) = i + 1
        /\ Index(n2, o, "domain", r) = Index(n, o, "domain", r)
        /\ n2.made["world"][r] >= 1
    BY <2>0, WorkerCalls
  <2> HIDE DEF n2
  <2>2. Stands(setup, tr2, Front(n2, o), i + 1, Index(n2, o, "domain", r), k, task'[r], runner'[r])
    BY <1>1, <2>1 DEF Stands
  <2> QED
    BY <1>1, <2>1, <2>2, Comes DEF n2
<1> QED
  BY <1>2, <1>3

(* To a domain call on its way to the station.                             *)
LEMMA ToDomain ==
  ASSUME Types, NEW r \in Ranks, OnlyMoves(r),
         NEW o, NEW tr, Together(setup, net, o, tr, at, task, runner),
         NEW n, NEW tr2, Underway(net, n, setup, o, tr, tr2, r),
         NEW k \in DomainKinds, NEW p \in Payloads, k = "gather" => p.arg \in Tokens,
         NEW i \in Nat, i = Index(n, o, "world", r), i + 1 <= Front(n, o),
         tr2[i + 1].task = task'[r], k \in tr2[i + 1].calls,
         Turn(tr2[i + 1], k) = Index(n, o, "domain", r) + 1,
         Heading(setup, tr2[i + 1], Turn(tr2[i + 1], k), k, task'[r], runner'[r]),
         Goes(r, Entered(n, r, k, p), k)
  PROVE  OnOneWalk'
<1> DEFINE n2 == Entered(n, r, k, p)
           a == i + 1
<1>0. a \in Nat
  OBVIOUS
<1>1. CommOf(k) = "domain" /\ k \notin WorldKinds
  BY Places0
<1>2. /\ Underway(net, n2, setup, o, tr, tr2, r)
      /\ Front(n2, o) = Front(n, o) /\ Index(n2, o, "world", r) = i
      /\ Index(n2, o, "domain", r) = Turn(tr2[a], k)
      /\ n2.made["domain"][r] >= 1
  <2> HIDE DEF a
  <2>1. a <= Front(n, o) /\ k \in tr2[a].calls
        /\ Turn(tr2[a], k) = Index(n, o, "domain", r) + 1
    BY DEF a
  <2> QED
    BY <1>0, <2>1, DomainCalls
<1>3. Front(n, o) \in Nat
  BY WalkTypes DEF Underway
<1> HIDE DEF n2
<1>4. Stands(setup, tr2, Front(n2, o), i, Turn(tr2[a], k), k, task'[r], runner'[r])
  BY <1>1, <1>2, <1>3 DEF Stands
<1> QED
  BY <1>1, <1>2, <1>4, Comes DEF n2

(* Back to the request handler, or out.                                    *)
LEMMA ToRest ==
  ASSUME Types, NEW r \in Ranks, OnlyMoves(r),
         NEW o, NEW tr, Together(setup, net, o, tr, at, task, runner),
         NEW n, NEW tr2, Underway(net, n, setup, o, tr, tr2, r),
         NEW place \in {"client", "exited"},
         Index(n, o, "world", r) <= Front(n, o),
         place = "client" =>
           /\ Index(n, o, "world", r) + 1 <= Front(n, o)
           /\ tr2[Index(n, o, "world", r) + 1].task = task'[r]
           /\ tr2[Index(n, o, "world", r) + 1].kind = "command"
           /\ tr2[Index(n, o, "world", r) + 1].core = Shared(runner'[r])
           /\ tr2[Index(n, o, "world", r) + 1].dom = Index(n, o, "domain", r),
         Goes(r, n, place)
  PROVE  OnOneWalk'
<1>1. place \notin Kinds /\ place \notin WorldKinds /\ place \notin DomainKinds
  BY Places0
<1>2. place # "forward" /\ place # "gather"
  OBVIOUS
<1>3. Stands(setup, tr2, Front(n, o), Index(n, o, "world", r), Index(n, o, "domain", r),
             place, task'[r], runner'[r])
  BY <1>1, <1>2 DEF Stands, Heading
<1> QED
  BY <1>1, <1>3, Comes

(* What a rank hears when its call on world returns, and where it leads.   *)
LEMMA Hears ==
  ASSUME NEW r \in Ranks, NEW o, NEW tr, Together(setup, net, o, tr, at, task, runner),
         NEW k \in WorldKinds, at[r] = k, MayReturn(net, r, k)
  PROVE  LET i == Index(net, o, "world", r)
         IN /\ i \in Nat /\ i + 1 <= Front(net, o) /\ tr[i] \in Stations
            /\ tr[i].kind = k /\ tr[i].task = task[r] /\ tr[i].core = Shared(runner[r])
            /\ tr[i].dom = Index(net, o, "domain", r)
            /\ Sent(k, Delivered(net, r, k))
            /\ tr[i + 1] = Onward(setup, tr[i], Delivered(net, r, k))
<1> DEFINE i == Index(net, o, "world", r)
           a == net.made["world"][r]
           b == net.made["world"][Root]
           w == o["world"]
           l == Len(net.calls["world"])
<1>1. Wired(net) /\ Walk(setup, net, o, tr) /\ WorldWalk(setup, net, o, tr)
  BY DEF Together, Walk
<1>2. k \in Kinds /\ CommOf(k) = "world" /\ "world" \in Comms /\ Root \in Ranks
  BY Places0, Parameters DEF Comms
<1>3. a \in Nat /\ b \in Nat /\ w \in Nat /\ a <= l /\ l \in Nat
  BY <1>1, <1>2, WalkTypes
<1>4. a - 1 >= 0
  <2>1. Left(net, at, "world", r) >= 0
    BY <1>2 DEF Together
  <2> QED
    BY <1>2, <2>1 DEF Left
<1>5. a <= b
  <2> HIDE DEF a, b
  <2>1. (IF k \in Broadcasts THEN b >= a ELSE \A q \in Ranks : net.made["world"][q] >= a)
    BY <1>2 DEF MayReturn, a, b
  <2> QED
    BY <1>2, <1>3, <2>1 DEF b
<1>6. i = a + w /\ Front(net, o) = b + w + 1
  BY DEF Index, Front
<1>7. /\ i \in Nat /\ i + 1 <= Front(net, o) /\ i < Front(net, o)
      /\ i \in (w + 1)..(w + l) /\ i - w = a
  <2> HIDE DEF i, a, b, w, l
  <2> QED
    BY <1>3, <1>4, <1>5, <1>6
<1>8. /\ tr[i].kind = k /\ tr[i].task = task[r] /\ tr[i].core = Shared(runner[r])
      /\ tr[i].dom = Index(net, o, "domain", r)
  BY DEF Together, Stands
<1>9. tr[i] \in Stations
  BY <1>1, <1>7, WalkTypes
<1>10. Delivered(net, r, k) = CallAt(net, o, "world", i).payload
  BY <1>2, <1>7 DEF Delivered, CallAt
<1>11. i \in Kept(net, o, "world")
  BY <1>7 DEF Kept
<1> HIDE DEF i
<1>12. LET p == CallAt(net, o, "world", i).payload
       IN Sent(tr[i].kind, p) /\ tr[i + 1] = Onward(setup, tr[i], p)
  BY <1>1, <1>7, <1>11 DEF WorldWalk
<1> QED
  BY <1>7, <1>8, <1>9, <1>10, <1>12 DEF i

(* Ranks that may meet in sampling decide alike whether to, and rank 0 is  *)
(* not left with logits it cannot read.                                    *)
LEMMA DecideAlike ==
  ASSUME Types, RootServes, Matching(setup), NEW r \in Ranks,
         r = Root => client.phase = "decode",
         NEW s \in Runners, s.sampling = runner[r].sampling
  PROVE  /\ RequiresCoordinatedSampling(s) <=> Coordinated(setup, s)
         /\ r = Root /\ DefersSync(s) => RequiresCoordinatedSampling(s)
<1>1. s.sampling \in Samplings
  BY SharedFields
<1>2. CASE r = Root
  <2>1. s.sampling \in setup.samplings
    BY <1>2 DEF RootServes
  <2>2. /\ setup.gpu /\ setup.sharded => ~(s.sampling.greedy /\ s.sampling.penalties)
        /\ setup.gpu /\ ~s.sampling.penalties /\ (s.sampling.greedy \/ s.sampling.narrow)
             => setup.sharded /\ s.sampling.greedy
    BY <2>1 DEF Matching
  <2> QED
    BY <2>2 DEF RequiresCoordinatedSampling, Coordinated, DefersSync
<1>3. CASE r # Root
  <2>1. s.sampling.penalties = FALSE
    BY <1>3 DEF Types, Workers
  <2> QED
    BY <1>3, <2>1 DEF RequiresCoordinatedSampling, Coordinated
<1> QED
  BY <1>2, <1>3

-----------------------------------------------------------------------------
(* Lemmas about the bodies of the commands. *)

(* A step of rank r is on its way: r has made i calls on world.            *)
OnWay(r, o, tr, n, tr2, i) ==
  /\ setup' = setup /\ \A q \in Ranks \ {r} : task'[q] = task[q]
  /\ Together(setup, net, o, tr, at, task, runner)
  /\ Underway(net, n, setup, o, tr, tr2, r)
  /\ i \in Nat /\ i = Index(n, o, "world", r) /\ i + 1 <= Front(n, o)

(* It has taken command p at station e0.                                   *)
Took(r, o, n, tr2, i, p, e0) ==
  /\ task'[r] = p /\ Sent("command", p)
  /\ e0 \in Stations /\ e0.core = Shared(runner[r]) /\ e0.dom = Index(n, o, "domain", r)
  /\ tr2[i + 1] = Ordered(setup, e0, p)

(* It is about to sample, on its way to the fence of station e.            *)
Samples(r, o, n, e, s) ==
  /\ e.kind = "fence" /\ e.task = task'[r] /\ e.core = Shared(s) /\ task'[r].cmd = "decode"
  /\ "gather" \in e.calls <=> Coordinated(setup, s)
  /\ e.dom = Index(n, o, "domain", r) + (IF Coordinated(setup, s) THEN 1 ELSE 0)

(* It has the token it goes to the fence with, or meets the others.        *)
Sampled(r, s) ==
  /\ client' = client
  /\ \E k \in {"gather", "fence"} : at' = [at EXCEPT ![r] = k]
  /\ \E x \in Runners :
       /\ runner' = [runner EXCEPT ![r] = x]
       /\ x.fed = s.fed /\ x.ready = s.ready /\ x.last = s.last
       /\ x.history = s.history /\ x.sampling = s.sampling

(* A rank with the logits of its last row samples, or meets the others.    *)
LEMMA SampleGoes ==
  ASSUME Types, NEW r \in Ranks,
         NEW o, NEW tr, NEW n, NEW tr2, NEW i, OnWay(r, o, tr, n, tr2, i),
         NEW s \in Runners, NEW deferred, Sample(r, n, s, deferred),
         RequiresCoordinatedSampling(s) <=> Coordinated(setup, s),
         r = Root /\ deferred => RequiresCoordinatedSampling(s),
         NEW e, e = tr2[i + 1], Samples(r, o, n, e, s)
  PROVE  OnOneWalk' /\ Sampled(r, s)
<1> /\ setup' = setup /\ \A q \in Ranks \ {r} : task'[q] = task[q]
    /\ Together(setup, net, o, tr, at, task, runner)
    /\ Underway(net, n, setup, o, tr, tr2, r)
    /\ i \in Nat /\ i = Index(n, o, "world", r) /\ i + 1 <= Front(n, o)
  BY DEF OnWay
<1> /\ e.kind = "fence" /\ e.task = task'[r] /\ e.core = Shared(s) /\ task'[r].cmd = "decode"
    /\ "gather" \in e.calls <=> Coordinated(setup, s)
    /\ e.dom = Index(n, o, "domain", r) + (IF Coordinated(setup, s) THEN 1 ELSE 0)
  BY DEF Samples
<1>1. CASE RequiresCoordinatedSampling(s)
  <2>1. /\ \E t \in IF r = Root THEN Tokens ELSE {ZeroToken} : CallsWith(r, n, "gather", t)
        /\ Becomes(r, s) /\ UNCHANGED client
    BY <1>1 DEF Sample
  <2>2. PICK t \in Tokens : CallsWith(r, n, "gather", t)
    BY <2>1, Parameters
  <2> DEFINE p == [cmd |-> "gather", arg |-> t]
  <2>3. p \in Payloads /\ p.arg \in Tokens /\ "gather" \in DomainKinds
    <3>1. p \in Payloads
      BY Places0
    <3> QED
      BY <3>1 DEF DomainKinds
  <2>4. runner' = [runner EXCEPT ![r] = s] /\ runner'[r] = s /\ OnlyMoves(r)
    BY <2>1 DEF Becomes, OnlyMoves, Types
  <2>5. "gather" \in e.calls /\ Turn(e, "gather") = e.dom
        /\ Turn(e, "gather") = Index(n, o, "domain", r) + 1
    BY <1>1 DEF Turn
  <2>6. Heading(setup, e, Turn(e, "gather"), "gather", task'[r], runner'[r])
    BY <2>4, <2>5 DEF Heading
  <2>7. Goes(r, Entered(n, r, "gather", p), "gather")
    BY <2>2 DEF CallsWith
  <2> HIDE DEF p
  <2>8. OnOneWalk'
    BY <2>3, <2>4, <2>5, <2>6, <2>7, ToDomain
  <2>9. at' = [at EXCEPT ![r] = "gather"]
    BY <2>7 DEF Goes
  <2>10. Sampled(r, s)
    BY <2>1, <2>4, <2>9 DEF Sampled
  <2> QED
    BY <2>8, <2>10
<1>2. CASE ~RequiresCoordinatedSampling(s)
  <2>1. /\ \E t \in IF r = Root THEN Tokens ELSE {ZeroToken} :
             Becomes(r, [s EXCEPT !.sample = t])
        /\ Calls(r, n, "fence") /\ UNCHANGED client
    BY <1>2 DEF Sample
  <2>2. PICK t \in Tokens : Becomes(r, [s EXCEPT !.sample = t])
    BY <2>1, Parameters
  <2> DEFINE x == [s EXCEPT !.sample = t]
  <2>3. /\ x \in Runners /\ x.fed = s.fed /\ x.ready = s.ready /\ x.last = s.last
        /\ x.history = s.history /\ x.sampling = s.sampling /\ Shared(x) = Shared(s)
    <3>1. /\ x \in Runners /\ x.fed = s.fed /\ x.ready = s.ready /\ x.last = s.last
          /\ x.history = s.history /\ x.sampling = s.sampling
      BY DEF Runners
    <3> QED
      BY <3>1 DEF Shared, Runners
  <2>4. runner' = [runner EXCEPT ![r] = x]
    BY <2>2 DEF Becomes
  <2> HIDE DEF x
  <2>5. runner'[r] = x /\ OnlyMoves(r)
    BY <2>4 DEF OnlyMoves, Types
  <2>6. "fence" \in WorldKinds /\ Nothing \in Payloads /\ Sent("fence", Nothing)
    BY Places0 DEF WorldKinds, Sent
  <2>7. Goes(r, Entered(n, r, "fence", Nothing), "fence")
    BY <2>1 DEF Calls
  <2>8. e.dom = Index(n, o, "domain", r)
    <3>1. Index(n, o, "domain", r) \in Int
      <4>1. n.made["domain"][r] \in Nat /\ o["domain"] \in Nat
        BY WalkTypes DEF Underway
      <4> QED
        BY <4>1 DEF Index
    <3> QED
      BY <1>2, <3>1
  <2>9. OnOneWalk'
    BY <2>3, <2>5, <2>6, <2>7, <2>8, ToWorld
  <2>10. at' = [at EXCEPT ![r] = "fence"]
    BY <2>7 DEF Goes
  <2>11. Sampled(r, s)
    BY <2>1, <2>3, <2>4, <2>10 DEF Sampled
  <2> QED
    BY <2>9, <2>11
<1> QED
  BY <1>1, <1>2

(* A command is over: rank 0 is in its handler, a worker waits.            *)
LEMMA ReturnGoes ==
  ASSUME Types, NEW r \in Ranks, OnlyMoves(r),
         NEW o, NEW tr, Together(setup, net, o, tr, at, task, runner),
         NEW n, NEW tr2, Underway(net, n, setup, o, tr, tr2, r),
         NEW i \in Nat, i = Index(n, o, "world", r), i + 1 <= Front(n, o),
         NEW e, e = tr2[i + 1], e.kind = "command", e.task = task'[r],
         e.core = Shared(runner'[r]), e.dom = Index(n, o, "domain", r),
         NEW c, Return(r, n, c)
  PROVE  /\ OnOneWalk'
         /\ at' = [at EXCEPT ![r] = IF r = Root THEN "client" ELSE "command"]
         /\ client' = IF r = Root THEN c ELSE client
<1>1. Front(n, o) \in Nat
  BY WalkTypes DEF Underway
<1>2. CASE r = Root
  <2>1. Goes(r, n, "client") /\ client' = c
    BY <1>2 DEF Return
  <2>2. i <= Front(n, o)
    BY <1>1
  <2>3. OnOneWalk'
    BY <2>1, <2>2, ToRest
  <2> QED
    BY <1>2, <2>1, <2>3 DEF Goes
<1>3. CASE r # Root
  <2>1. Goes(r, Entered(n, r, "command", Nothing), "command") /\ client' = client
    BY <1>3 DEF Return, Calls
  <2>2. "command" \in WorldKinds /\ Nothing \in Payloads
    BY Places0 DEF WorldKinds
  <2>3. OnOneWalk'
    BY <1>3, <2>1, <2>2, ToWorld
  <2> QED
    BY <1>3, <2>1, <2>3 DEF Goes
<1> QED
  BY <1>2, <1>3

LEMMA PrefillGoes ==
  ASSUME Types, NEW r \in Ranks,
         NEW o, NEW tr, NEW n, NEW tr2, NEW i, OnWay(r, o, tr, n, tr2, i),
         NEW p, NEW e0, Took(r, o, n, tr2, i, p, e0), p.cmd = "prefill",
         PrefillBody(r, n, p.arg)
  PROVE  /\ OnOneWalk' /\ p.arg \in Prompts
         /\ Primed(runner[r], p.arg) \in Runners
         /\ runner' = [runner EXCEPT ![r] = Primed(runner[r], p.arg)]
         /\ \/ /\ at' = [at EXCEPT ![r] = IF r = Root THEN "client" ELSE "command"]
               /\ client' = IF r = Root THEN Failed(client) ELSE client
            \/ at' = [at EXCEPT ![r] = "forward"] /\ client' = client
<1> /\ setup' = setup /\ \A q \in Ranks \ {r} : task'[q] = task[q]
    /\ Together(setup, net, o, tr, at, task, runner)
    /\ Underway(net, n, setup, o, tr, tr2, r)
    /\ i \in Nat /\ i = Index(n, o, "world", r) /\ i + 1 <= Front(n, o)
  BY DEF OnWay
<1> /\ task'[r] = p /\ Sent("command", p)
    /\ e0 \in Stations /\ e0.core = Shared(runner[r]) /\ e0.dom = Index(n, o, "domain", r)
    /\ tr2[i + 1] = Ordered(setup, e0, p)
  BY DEF Took
<1> DEFINE s == Primed(runner[r], p.arg)
           e == tr2[i + 1]
<1>1. p \in Payloads /\ p.arg \in Prompts /\ runner[r] \in Runners
  BY DEF Sent, Types
<1>2. /\ s \in Runners /\ Shared(s) = Primed(Shared(runner[r]), p.arg)
      /\ Prefilled(s, p.arg) \in Runners /\ Shared(Prefilled(s, p.arg)) = Prefilled(Shared(s), p.arg)
  BY <1>1, SharedPrimed
<1>3. runner' = [runner EXCEPT ![r] = s]
      /\ IF Len(p.arg) > ActivationLength
         THEN Return(r, n, Failed(client))
         ELSE Calls(r, n, "forward") /\ UNCHANGED client
  BY DEF PrefillBody, Becomes, Primed
<1>4. e = IF Len(p.arg) > ActivationLength
          THEN Then(e0, "command", p, Primed(e0.core, p.arg), {})
          ELSE Then(e0, "command", p, Prefilled(Primed(e0.core, p.arg), p.arg), {"forward"})
  BY DEF Ordered
<1>5. runner'[r] = s /\ OnlyMoves(r)
  BY <1>3 DEF OnlyMoves, Types
<1>6. e0.dom \in Int /\ e0.core = Shared(runner[r])
  BY DEF Stations
<1> HIDE DEF s
<1>7. CASE Len(p.arg) > ActivationLength
  <2>1. e = Then(e0, "command", p, Shared(s), {})
    BY <1>2, <1>4, <1>6, <1>7
  <2>2. e.kind = "command" /\ e.task = p /\ e.core = Shared(s) /\ e.dom = e0.dom
    BY <1>6, <2>1 DEF Then, Number
  <2>3. Return(r, n, Failed(client))
    BY <1>3, <1>7
  <2>4. /\ OnOneWalk'
        /\ at' = [at EXCEPT ![r] = IF r = Root THEN "client" ELSE "command"]
        /\ client' = IF r = Root THEN Failed(client) ELSE client
    BY <1>5, <2>2, <2>3, ReturnGoes
  <2> QED
    BY <1>1, <1>2, <1>3, <2>4 DEF s
<1>8. CASE ~(Len(p.arg) > ActivationLength)
  <2>1. e = Then(e0, "command", p, Prefilled(Shared(s), p.arg), {"forward"})
    BY <1>2, <1>4, <1>6, <1>8
  <2>2. /\ e.kind = "command" /\ e.task = p /\ e.core = Shared(Prefilled(s, p.arg))
        /\ e.calls = {"forward"} /\ e.dom = e0.dom + 1
    BY <1>2, <1>6, <2>1 DEF Then, Number
  <2>3. Goes(r, Entered(n, r, "forward", Nothing), "forward") /\ client' = client
    BY <1>3, <1>8 DEF Calls
  <2>4. /\ "forward" \in e.calls /\ "gather" \notin e.calls
        /\ Turn(e, "forward") = Index(n, o, "domain", r) + 1
    BY <2>2 DEF Turn
  <2>5. Heading(setup, e, Turn(e, "forward"), "forward", task'[r], runner'[r])
    BY <1>1, <1>5, <2>2, <2>4 DEF Heading
  <2>6. "forward" \in DomainKinds /\ Nothing \in Payloads
    BY Places0 DEF DomainKinds
  <2>7. OnOneWalk'
    BY <1>5, <2>2, <2>3, <2>4, <2>5, <2>6, ToDomain
  <2> QED
    BY <1>1, <1>2, <1>3, <2>3, <2>7 DEF s, Goes
<1> QED
  BY <1>7, <1>8

(* A command that needs the logits of the last token runs the model if     *)
(* they are not there yet.                                                 *)
LEMMA ForwardGoes ==
  ASSUME Types, NEW r \in Ranks,
         NEW o, NEW tr, NEW n, NEW tr2, NEW i, OnWay(r, o, tr, n, tr2, i),
         NEW p, NEW e0, Took(r, o, n, tr2, i, p, e0), p.cmd \in {"decode", "force"},
         runner[r].ready = FALSE,
         Calls(r, n, "forward"), runner' = runner
  PROVE  OnOneWalk' /\ at' = [at EXCEPT ![r] = "forward"]
<1> /\ setup' = setup /\ \A q \in Ranks \ {r} : task'[q] = task[q]
    /\ Together(setup, net, o, tr, at, task, runner)
    /\ Underway(net, n, setup, o, tr, tr2, r)
    /\ i \in Nat /\ i = Index(n, o, "world", r) /\ i + 1 <= Front(n, o)
  BY DEF OnWay
<1> /\ task'[r] = p /\ Sent("command", p)
    /\ e0 \in Stations /\ e0.core = Shared(runner[r]) /\ e0.dom = Index(n, o, "domain", r)
    /\ tr2[i + 1] = Ordered(setup, e0, p)
  BY DEF Took
<1> DEFINE s == runner[r]
           e == tr2[i + 1]
<1>1. p.cmd = "force" => p.arg \in Tokens
  BY DEF Sent
<1>2. /\ s \in Runners /\ e0.core.ready = FALSE /\ Ran(e0.core) = Shared(Ran(s))
      /\ Ran(s) \in Runners
      /\ Coordinated(setup, e0.core) <=> Coordinated(setup, s)
  <2>1. s \in Runners /\ e0.core = Shared(s) /\ s.ready = FALSE
    BY DEF Types
  <2> HIDE DEF s
  <2>2. Shared(s).ready = s.ready /\ (Coordinated(setup, Shared(s)) <=> Coordinated(setup, s))
    BY <2>1, SharedFields
  <2>3. Ran(s) \in Runners /\ Shared(Ran(s)) = Ran(Shared(s))
    BY <2>1, SharedRan
  <2> QED
    BY <2>1, <2>2, <2>3
<1>3. e0.dom \in Int /\ e0.dom = Index(n, o, "domain", r)
  BY DEF Stations
<1>4. Goes(r, Entered(n, r, "forward", Nothing), "forward")
  BY DEF Calls
<1>5. "forward" \in DomainKinds /\ Nothing \in Payloads /\ OnlyMoves(r) /\ runner'[r] = s
  BY Places0 DEF DomainKinds, OnlyMoves
<1>6. /\ e.kind = "fence" /\ e.task = p /\ "forward" \in e.calls
      /\ Turn(e, "forward") = Index(n, o, "domain", r) + 1
      /\ p.cmd = "decode" => /\ e.core = Shared(Ran(s))
                             /\ ("gather" \in e.calls <=> Coordinated(setup, s))
      /\ p.cmd = "force" => e.core = Shared(Recorded(Ran(s), p.arg)) /\ "gather" \notin e.calls
  <2> HIDE DEF s
  <2>1. CASE p.cmd = "decode"
    <3>1. e = Then(e0, "fence", p, Ran(e0.core), {"forward"} \cup GatherIf(setup, e0.core))
      BY <1>2, <2>1 DEF Ordered, ForwardUnless
    <3>2. /\ e.kind = "fence" /\ e.task = p /\ e.core = Ran(e0.core)
          /\ e.calls = {"forward"} \cup GatherIf(setup, e0.core)
          /\ e.dom = e0.dom + Number({"forward"} \cup GatherIf(setup, e0.core))
      BY <3>1 DEF Then
    <3>3. CASE Coordinated(setup, s)
      <4>1. {"forward"} \cup GatherIf(setup, e0.core) = {"forward", "gather"}
        BY <1>2, <3>3 DEF GatherIf
      <4>2. e.dom = e0.dom + 2 /\ e.calls = {"forward", "gather"}
        BY <1>3, <3>2, <4>1 DEF Number
      <4> QED
        BY <1>2, <1>3, <2>1, <3>2, <3>3, <4>2 DEF Turn
    <3>4. CASE ~Coordinated(setup, s)
      <4>1. {"forward"} \cup GatherIf(setup, e0.core) = {"forward"}
        BY <1>2, <3>4 DEF GatherIf
      <4>2. e.dom = e0.dom + 1 /\ e.calls = {"forward"}
        BY <1>3, <3>2, <4>1 DEF Number
      <4> QED
        BY <1>2, <1>3, <2>1, <3>2, <3>4, <4>2 DEF Turn
    <3> QED
      BY <3>3, <3>4
  <2>2. CASE p.cmd = "force"
    <3>1. e = Then(e0, "fence", p, Recorded(Ran(e0.core), p.arg), {"forward"})
      BY <1>2, <2>2 DEF Ordered, ForwardUnless
    <3>2. /\ e.kind = "fence" /\ e.task = p /\ e.core = Recorded(Shared(Ran(s)), p.arg)
          /\ e.calls = {"forward"} /\ e.dom = e0.dom + 1
      BY <1>2, <1>3, <3>1 DEF Then, Number
    <3>3. Recorded(Shared(Ran(s)), p.arg) = Shared(Recorded(Ran(s), p.arg))
      BY <1>1, <1>2, <2>2, SharedRecorded
    <3> QED
      BY <1>3, <2>2, <3>2, <3>3 DEF Turn
  <2> QED
    BY <2>1, <2>2
<1>7. Heading(setup, e, Turn(e, "forward"), "forward", task'[r], runner'[r])
  <2>1. runner'[r] = s /\ task'[r] = p /\ s.ready = FALSE
    BY <1>5
  <2> DEFINE d == Turn(e, "forward")
  <2> HIDE DEF e, s, d
  <2>2. Heading(setup, e, d, "forward", p, s)
    <3>1. CASE p.cmd = "decode"
      BY <1>6, <2>1, <3>1 DEF Heading, d
    <3>2. CASE p.cmd = "force"
      BY <1>1, <1>6, <2>1, <3>2 DEF Heading, d
    <3> QED
      BY <3>1, <3>2
  <2> QED
    BY <2>1, <2>2 DEF d
<1>8. OnOneWalk'
  BY <1>4, <1>5, <1>6, <1>7, ToDomain
<1> QED
  BY <1>4, <1>8 DEF Goes

(* A rank has begun a decode step, with the logits it has or a row to run. *)
Decoded(r) ==
  /\ client' = client
  /\ \/ /\ runner[r].ready = TRUE
        /\ \E k \in {"gather", "fence"} : at' = [at EXCEPT ![r] = k]
        /\ \E x \in Runners :
             /\ runner' = [runner EXCEPT ![r] = x]
             /\ x.fed = runner[r].fed /\ x.ready = FALSE
             /\ x.history = runner[r].history /\ x.sampling = runner[r].sampling
     \/ /\ runner[r].ready = FALSE /\ runner' = runner
        /\ at' = [at EXCEPT ![r] = "forward"]

LEMMA DecodeGoes ==
  ASSUME Types, RootServes, Matching(setup), NEW r \in Ranks, r = Root => client.phase = "decode",
         NEW o, NEW tr, NEW n, NEW tr2, NEW i, OnWay(r, o, tr, n, tr2, i),
         NEW p, NEW e0, Took(r, o, n, tr2, i, p, e0), p.cmd = "decode",
         DecodeBody(r, n)
  PROVE  OnOneWalk' /\ Decoded(r)
<1> /\ setup' = setup /\ \A q \in Ranks \ {r} : task'[q] = task[q]
    /\ Together(setup, net, o, tr, at, task, runner)
    /\ Underway(net, n, setup, o, tr, tr2, r)
    /\ i \in Nat /\ i = Index(n, o, "world", r) /\ i + 1 <= Front(n, o)
  BY DEF OnWay
<1> /\ task'[r] = p /\ Sent("command", p)
    /\ e0 \in Stations /\ e0.core = Shared(runner[r]) /\ e0.dom = Index(n, o, "domain", r)
    /\ tr2[i + 1] = Ordered(setup, e0, p)
  BY DEF Took
<1> DEFINE e == tr2[i + 1]
<1>0. runner[r] \in Runners /\ runner[r].ready \in BOOLEAN
  BY SharedFields DEF Types
<1>1. CASE runner[r].ready = TRUE
  <2> DEFINE s == [runner[r] EXCEPT !.ready = FALSE]
  <2>1. Sample(r, n, s, FALSE) /\ s = Ran(runner[r])
    BY <1>1 DEF DecodeBody, Ran
  <2>2. /\ s \in Runners /\ s.ready = FALSE /\ s.sampling = runner[r].sampling
        /\ s.history = runner[r].history /\ Shared(s) = Ran(Shared(runner[r]))
    BY <1>0, <2>1, SharedRan
  <2>3. s.fed = runner[r].fed
    BY <1>0 DEF Runners
  <2> HIDE DEF s
  <2>4. RequiresCoordinatedSampling(s) <=> Coordinated(setup, s)
    BY <2>2, DecideAlike
  <2>5. /\ Coordinated(setup, e0.core) <=> Coordinated(setup, s)
        /\ e0.core.ready = TRUE /\ Ran(e0.core) = Shared(s) /\ e0.dom \in Int
    <3>0. e0.dom \in Int
      BY DEF Stations
    <3>1. e0.core.ready = TRUE
      <4>1. Shared(runner[r]).ready = runner[r].ready
        BY <1>0, SharedFields
      <4> QED
        BY <1>1, <4>1
    <3>2. Coordinated(setup, e0.core) <=> Coordinated(setup, runner[r])
      BY <1>0, SharedFields
    <3> QED
      BY <2>2, <3>0, <3>1, <3>2 DEF Coordinated
  <2>6. e = Then(e0, "fence", p, Shared(s), GatherIf(setup, e0.core))
    <3>1. {} \cup GatherIf(setup, e0.core) = GatherIf(setup, e0.core)
      OBVIOUS
    <3> QED
      BY <2>5, <3>1 DEF Ordered, ForwardUnless
  <2>7. /\ e.kind = "fence" /\ e.task = p /\ e.core = Shared(s)
        /\ "gather" \in e.calls <=> Coordinated(setup, s)
        /\ e.dom = Index(n, o, "domain", r) + (IF Coordinated(setup, s) THEN 1 ELSE 0)
    BY <2>5, <2>6 DEF Then, Number, GatherIf
  <2>7a. e = tr2[i + 1] /\ Samples(r, o, n, e, s)
    BY <2>7 DEF Samples
  <2> HIDE DEF e
  <2>8. OnOneWalk' /\ Sampled(r, s)
    BY <2>1, <2>2, <2>4, <2>7a, SampleGoes
  <2> QED
    <3>1. Decoded(r)
      <4>1. \E k \in {"gather", "fence"} : at' = [at EXCEPT ![r] = k]
        BY <2>8 DEF Sampled
      <4>2. PICK x \in Runners : /\ runner' = [runner EXCEPT ![r] = x]
                                /\ x.fed = s.fed /\ x.ready = s.ready
                                /\ x.history = s.history /\ x.sampling = s.sampling
        BY <2>8 DEF Sampled
      <4>3. client' = client
        BY <2>8 DEF Sampled
      <4> QED
        BY <1>1, <2>2, <2>3, <4>1, <4>2, <4>3 DEF Decoded
    <3> QED
      BY <2>8, <3>1
<1>2. CASE runner[r].ready = FALSE
  <2>1. Calls(r, n, "forward") /\ runner' = runner /\ client' = client
    BY <1>2 DEF DecodeBody
  <2>2. p.cmd \in {"decode", "force"}
    OBVIOUS
  <2>3. OnOneWalk' /\ at' = [at EXCEPT ![r] = "forward"]
    BY <1>2, <2>1, <2>2, ForwardGoes
  <2> QED
    BY <1>2, <2>1, <2>3 DEF Decoded
<1> QED
  BY <1>0, <1>1, <1>2

(* It has begun to take a forced token.                                    *)
Forced(r, t) ==
  /\ client' = client
  /\ \/ /\ runner[r].ready = TRUE /\ at' = [at EXCEPT ![r] = "fence"]
        /\ Ran(runner[r]) \in Runners /\ Recorded(Ran(runner[r]), t) \in Runners
        /\ runner' = [runner EXCEPT ![r] = Recorded(Ran(runner[r]), t)]
     \/ /\ runner[r].ready = FALSE /\ runner' = runner
        /\ at' = [at EXCEPT ![r] = "forward"]

LEMMA ForceGoes ==
  ASSUME Types, NEW r \in Ranks,
         NEW o, NEW tr, NEW n, NEW tr2, NEW i, OnWay(r, o, tr, n, tr2, i),
         NEW p, NEW e0, Took(r, o, n, tr2, i, p, e0), p.cmd = "force",
         ForceBody(r, n, p.arg)
  PROVE  OnOneWalk' /\ p.arg \in Tokens /\ Forced(r, p.arg)
<1> /\ setup' = setup /\ \A q \in Ranks \ {r} : task'[q] = task[q]
    /\ Together(setup, net, o, tr, at, task, runner)
    /\ Underway(net, n, setup, o, tr, tr2, r)
    /\ i \in Nat /\ i = Index(n, o, "world", r) /\ i + 1 <= Front(n, o)
  BY DEF OnWay
<1> /\ task'[r] = p /\ Sent("command", p)
    /\ e0 \in Stations /\ e0.core = Shared(runner[r]) /\ e0.dom = Index(n, o, "domain", r)
    /\ tr2[i + 1] = Ordered(setup, e0, p)
  BY DEF Took
<1> DEFINE e == tr2[i + 1]
<1>0. runner[r] \in Runners /\ runner[r].ready \in BOOLEAN /\ p.arg \in Tokens
  BY SharedFields DEF Types, Sent
<1>1. CASE runner[r].ready = TRUE
  <2> DEFINE s == Ran(runner[r])
             x == Recorded(s, p.arg)
  <2>1. /\ s \in Runners /\ x \in Runners /\ Shared(x) = Recorded(Shared(s), p.arg)
        /\ Shared(s) = Ran(Shared(runner[r]))
    <3>1. s \in Runners /\ Shared(s) = Ran(Shared(runner[r]))
      BY <1>0, SharedRan
    <3> HIDE DEF s
    <3>2. x \in Runners /\ Shared(x) = Recorded(Shared(s), p.arg)
      BY <1>0, <3>1, SharedRecorded
    <3> QED
      BY <3>1, <3>2
  <2>2. /\ runner' = [runner EXCEPT ![r] = x] /\ Calls(r, n, "fence") /\ client' = client
    BY <1>1 DEF ForceBody, Becomes, Ran
  <2> HIDE DEF s, x
  <2>3. runner'[r] = x /\ OnlyMoves(r)
    BY <2>2 DEF OnlyMoves, Types
  <2>4. e0.core.ready = TRUE /\ e0.dom \in Int
    <3>1. e0.dom \in Int
      BY DEF Stations
    <3>2. Shared(runner[r]).ready = runner[r].ready
      BY <1>0, SharedFields
    <3>3. e0.core.ready = TRUE
      BY <1>1, <3>2
    <3> QED
      BY <3>1, <3>3
  <2>5. e = Then(e0, "fence", p, Shared(x), {})
    BY <2>1, <2>4 DEF Ordered, ForwardUnless
  <2>6. e.kind = "fence" /\ e.task = p /\ e.core = Shared(x) /\ e.dom = e0.dom
    BY <2>4, <2>5 DEF Then, Number
  <2>7. "fence" \in WorldKinds /\ Nothing \in Payloads /\ Sent("fence", Nothing)
    BY Places0 DEF WorldKinds, Sent
  <2>8. Goes(r, Entered(n, r, "fence", Nothing), "fence")
    BY <2>2 DEF Calls
  <2> HIDE DEF e
  <2>9. OnOneWalk'
    BY <2>3, <2>6, <2>7, <2>8, ToWorld DEF e
  <2> QED
    BY <1>0, <1>1, <2>1, <2>2, <2>8, <2>9 DEF Goes, Forced, s, x
<1>2. CASE runner[r].ready = FALSE
  <2>1. Calls(r, n, "forward") /\ runner' = runner /\ client' = client
    BY <1>2 DEF ForceBody
  <2>2. p.cmd \in {"decode", "force"}
    OBVIOUS
  <2>3. OnOneWalk' /\ at' = [at EXCEPT ![r] = "forward"]
    BY <1>2, <2>1, <2>2, ForwardGoes
  <2> QED
    BY <1>0, <1>2, <2>1, <2>3 DEF Forced
<1> QED
  BY <1>0, <1>1, <1>2

(* The command is over.                                                    *)
Returned(r, c) ==
  /\ at' = [at EXCEPT ![r] = IF r = Root THEN "client" ELSE "command"]
  /\ client' = IF r = Root THEN c ELSE client

(* A command that only changes the runner.                                 *)
LEMMA PlainGoes ==
  ASSUME Types, NEW r \in Ranks,
         NEW o, NEW tr, NEW n, NEW tr2, NEW i, OnWay(r, o, tr, n, tr2, i),
         NEW p, NEW e0, Took(r, o, n, tr2, i, p, e0),
         NEW x, Becomes(r, x), Ordered(setup, e0, p) = Then(e0, "command", p, Shared(x), {}),
         NEW c, Return(r, n, c)
  PROVE  OnOneWalk' /\ Returned(r, c)
<1> /\ setup' = setup /\ \A q \in Ranks \ {r} : task'[q] = task[q]
    /\ Together(setup, net, o, tr, at, task, runner)
    /\ Underway(net, n, setup, o, tr, tr2, r)
    /\ i \in Nat /\ i = Index(n, o, "world", r) /\ i + 1 <= Front(n, o)
  BY DEF OnWay
<1> /\ task'[r] = p /\ Sent("command", p)
    /\ e0 \in Stations /\ e0.core = Shared(runner[r]) /\ e0.dom = Index(n, o, "domain", r)
    /\ tr2[i + 1] = Ordered(setup, e0, p)
  BY DEF Took
<1> DEFINE e == tr2[i + 1]
<1>1. runner'[r] = x /\ OnlyMoves(r)
  BY DEF Becomes, OnlyMoves, Types
<1>2. e0.dom \in Int
  BY DEF Stations
<1>3. e.kind = "command" /\ e.task = p /\ e.core = Shared(x) /\ e.dom = e0.dom
  BY <1>2 DEF Then, Number
<1>4. /\ OnOneWalk'
      /\ at' = [at EXCEPT ![r] = IF r = Root THEN "client" ELSE "command"]
      /\ client' = IF r = Root THEN c ELSE client
  BY <1>1, <1>3, ReturnGoes
<1> QED
  BY <1>4 DEF Returned

LEMMA ClearGoes ==
  ASSUME Types, NEW r \in Ranks,
         NEW o, NEW tr, NEW n, NEW tr2, NEW i, OnWay(r, o, tr, n, tr2, i),
         NEW p, NEW e0, Took(r, o, n, tr2, i, p, e0), p.cmd = "clear",
         Becomes(r, Cleared(runner[r])), NEW c, Return(r, n, c)
  PROVE  OnOneWalk' /\ Returned(r, c)
<1> DEFINE x == Cleared(runner[r])
<1>1. runner[r] \in Runners /\ e0.core = Shared(runner[r])
  BY DEF Types, Took
<1>2. Shared(x) = Cleared(e0.core)
  BY <1>1, SharedCleared
<1>3. Ordered(setup, e0, p) = Then(e0, "command", p, Shared(x), {})
  BY <1>2 DEF Ordered
<1>4. Becomes(r, x)
  OBVIOUS
<1> HIDE DEF x
<1> QED
  BY <1>3, <1>4, PlainGoes

LEMMA SamplingGoes ==
  ASSUME Types, NEW r \in Ranks,
         NEW o, NEW tr, NEW n, NEW tr2, NEW i, OnWay(r, o, tr, n, tr2, i),
         NEW p, NEW e0, Took(r, o, n, tr2, i, p, e0), p.cmd = "sampling",
         NEW q \in Samplings, p.arg = OnTheWire(q),
         Becomes(r, Configured(runner[r], q)), NEW c, Return(r, n, c)
  PROVE  OnOneWalk' /\ Returned(r, c)
<1> DEFINE x == Configured(runner[r], q)
<1>1. runner[r] \in Runners /\ e0.core = Shared(runner[r])
  BY DEF Types, Took
<1>2. Shared(x) = Configured(e0.core, p.arg)
  BY <1>1, SharedConfigured
<1>3. Ordered(setup, e0, p) = Then(e0, "command", p, Shared(x), {})
  BY <1>2 DEF Ordered
<1>4. Becomes(r, x)
  OBVIOUS
<1> HIDE DEF x
<1> QED
  BY <1>3, <1>4, PlainGoes

(* Rank 0 publishes a command.                                             *)
LEMMA Publishes ==
  ASSUME Types, OnOneWalk, at[Root] = "client", NEW p, Sent("command", p),
         task' = [task EXCEPT ![Root] = p], setup' = setup
  PROVE  \E o, tr, tr2, i, e0 :
           /\ OnWay(Root, o, tr, Entered(net, Root, "command", p), tr2, i)
           /\ Took(Root, o, Entered(net, Root, "command", p), tr2, i, p, e0)
<1>1. PICK o, tr : Together(setup, net, o, tr, at, task, runner)
  BY DEF OnOneWalk
<1>2. Wired(net) /\ Walk(setup, net, o, tr) /\ Root \in Ranks
  BY <1>1, Parameters DEF Together
<1>3. Underway(net, net, setup, o, tr, tr, Root)
  BY <1>2, SetsOut
<1> DEFINE f == Front(net, o)
           n == Entered(net, Root, "command", p)
           tr2 == [tr EXCEPT ![f + 1] = Onward(setup, tr[f], p)]
<1>4. f \in Nat /\ tr[f] \in Stations
  BY <1>2, WalkTypes
<1>5. /\ Index(net, o, "world", Root) + 1 = f
      /\ tr[f].kind = "command" /\ tr[f].core = Shared(runner[Root])
      /\ tr[f].dom = Index(net, o, "domain", Root)
  <2>1. Stands(setup, tr, f, Index(net, o, "world", Root), Index(net, o, "domain", Root),
               "client", task[Root], runner[Root])
    BY <1>1, <1>2 DEF Together
  <2>2. Index(net, o, "world", Root) + 1 = f
    BY DEF Front
  <2> HIDE DEF f
  <2>3. Heading(setup, tr[f], Index(net, o, "domain", Root), "client", task[Root], runner[Root])
    BY <2>1, <2>2 DEF Stands
  <2> QED
    BY <2>2, <2>3 DEF Heading
<1>6. "command" \in WorldKinds /\ f \in Int
  BY <1>4 DEF WorldKinds
<1>7. /\ Underway(net, n, setup, o, tr, tr2, Root)
      /\ Front(n, o) = f + 1 /\ Index(n, o, "world", Root) = f
      /\ Index(n, o, "domain", Root) = Index(net, o, "domain", Root)
      /\ tr2[f + 1] = Onward(setup, tr[f], p)
  BY <1>3, <1>5, <1>6, RootCalls
<1> HIDE DEF n, tr2, f
<1>8. OnWay(Root, o, tr, n, tr2, f)
  BY <1>1, <1>4, <1>7 DEF OnWay, Types
<1>9. Took(Root, o, n, tr2, f, p, tr[f])
  BY <1>2, <1>4, <1>5, <1>7 DEF Took, Types, Onward
<1> QED
  BY <1>8, <1>9 DEF n

(* A worker takes one.                                                     *)
LEMMA Takes ==
  ASSUME Types, OnOneWalk, NEW r \in Workers, In(r, "command"),
         Starts(r, Delivered(net, r, "command")), setup' = setup
  PROVE  \E o, tr, tr2, i, e0 :
           /\ OnWay(r, o, tr, net, tr2, i)
           /\ Took(r, o, net, tr2, i, Delivered(net, r, "command"), e0)
<1>1. PICK o, tr : Together(setup, net, o, tr, at, task, runner)
  BY DEF OnOneWalk
<1>2. Wired(net) /\ Walk(setup, net, o, tr) /\ r \in Ranks
  BY <1>1 DEF Together, Workers
<1>3. Underway(net, net, setup, o, tr, tr, r)
  BY <1>2, SetsOut
<1> DEFINE i == Index(net, o, "world", r)
           p == Delivered(net, r, "command")
<1>4. "command" \in WorldKinds /\ at[r] = "command" /\ MayReturn(net, r, "command")
  BY DEF WorldKinds, In
<1>5. /\ i \in Nat /\ i + 1 <= Front(net, o) /\ tr[i] \in Stations
      /\ tr[i].kind = "command" /\ tr[i].core = Shared(runner[r])
      /\ tr[i].dom = Index(net, o, "domain", r)
      /\ Sent("command", p)
      /\ tr[i + 1] = Onward(setup, tr[i], p)
  BY <1>1, <1>2, <1>4, Hears
<1>6. task'[r] = p /\ \A q \in Ranks \ {r} : task'[q] = task[q]
  BY <1>2 DEF Starts, Types
<1> HIDE DEF p
<1>7. OnWay(r, o, tr, net, tr, i)
  BY <1>1, <1>3, <1>5, <1>6 DEF OnWay
<1> HIDE DEF i
<1>8. Took(r, o, net, tr, i, p, tr[i])
  BY <1>5, <1>6 DEF Took, Onward
<1> QED
  BY <1>7, <1>8 DEF p

-----------------------------------------------------------------------------
(* A step of a worker. *)

(* The request handler and rank 0 are where they were.                     *)
LEMMA WorkerKeeps ==
  ASSUME Types, RootServes, NEW r \in Workers, NEW place \in Places, place # "client",
         at' = [at EXCEPT ![r] = place],
         NEW x \in Runners, x.sampling.penalties = FALSE, runner' = [runner EXCEPT ![r] = x],
         task' \in [Ranks -> Payloads], task'[Root] = task[Root],
         client' = client, setup' = setup, prompt' = prompt
  PROVE  Types' /\ RootServes'
<1>1. r \in Ranks /\ r # Root /\ Root \in Ranks
  BY Parameters DEF Workers
<1>2. at'[Root] = at[Root] /\ runner'[Root] = runner[Root] /\ task'[Root] = task[Root]
  BY <1>1 DEF Types
<1>3. Types'
  <2>1. at' \in [Ranks -> Places] /\ runner' \in [Ranks -> Runners]
    BY <1>1 DEF Types
  <2>2. \A w \in Workers : at'[w] # "client"
    BY <1>1 DEF Types, Workers
  <2>3. \A w \in Workers : runner'[w].sampling.penalties = FALSE
    BY <1>1 DEF Types, Workers
  <2> QED
    BY <1>2, <2>1, <2>2, <2>3 DEF Types, Workers
<1>4. RootServes'
  BY <1>2 DEF RootServes, Behind, Caught
<1> QED
  BY <1>3, <1>4

(* A worker's state after its command, which it has in task'[r].           *)
LEMMA WorkerTyped ==
  ASSUME Types, NEW r \in Workers, NEW p \in Payloads, Starts(r, p)
  PROVE  /\ task' \in [Ranks -> Payloads] /\ task'[Root] = task[Root] /\ task'[r] = p
         /\ r \in Ranks /\ r # Root /\ runner[r] \in Runners
         /\ runner[r].sampling \in Samplings /\ runner[r].sampling.penalties = FALSE
<1>1. r \in Ranks /\ r # Root /\ Root \in Ranks
  BY Parameters DEF Workers
<1>2. runner[r] \in Runners /\ runner[r].sampling.penalties = FALSE
  BY <1>1 DEF Types
<1>3. runner[r].sampling \in Samplings
  BY <1>2, SharedFields
<1> QED
  BY <1>1, <1>2, <1>3 DEF Types, Starts

LEMMA WorkerClearsKeeps ==
  ASSUME Inv, NEW r \in Workers, WorkerClears(r)
  PROVE  Inv'
<1> DEFINE p == Delivered(net, r, "command")
<1>1. /\ Types /\ RootServes /\ OnOneWalk
      /\ In(r, "command") /\ p.cmd = "clear" /\ Starts(r, p)
      /\ Becomes(r, Cleared(runner[r])) /\ Return(r, net, client)
      /\ setup' = setup /\ prompt' = prompt
  BY DEF Inv, WorkerClears, Dispatch
<1>2. PICK o, tr, tr2, i, e0 :
        OnWay(r, o, tr, net, tr2, i) /\ Took(r, o, net, tr2, i, p, e0)
  BY <1>1, Takes
<1> HIDE DEF p
<1>3. p \in Payloads
  BY <1>2 DEF Took, Sent
<1>4. r \in Ranks /\ r # Root /\ task' \in [Ranks -> Payloads] /\ task'[Root] = task[Root]
      /\ runner[r] \in Runners /\ runner[r].sampling.penalties = FALSE
  BY <1>1, <1>3, WorkerTyped
<1>5. OnOneWalk' /\ Returned(r, client)
  BY <1>1, <1>2, <1>4, ClearGoes
<1> DEFINE x == Cleared(runner[r])
<1>6. x \in Runners /\ x.sampling = runner[r].sampling
  <2>1. x \in Runners
    BY <1>4, SharedCleared
  <2> QED
    BY <1>4, <2>1 DEF Cleared, Runners
<1>7. runner' = [runner EXCEPT ![r] = x]
  BY <1>1 DEF Becomes
<1> HIDE DEF x
<1>8. at' = [at EXCEPT ![r] = "command"] /\ client' = client
  BY <1>4, <1>5 DEF Returned
<1>9. "command" \in Places /\ "command" # "client"
  BY DEF Places, Kinds, Broadcasts
<1>10. Types' /\ RootServes'
  BY <1>1, <1>4, <1>6, <1>7, <1>8, <1>9, WorkerKeeps
<1> QED
  BY <1>5, <1>10 DEF Inv

LEMMA WorkerSetsSamplingKeeps ==
  ASSUME Inv, NEW r \in Workers, WorkerSetsSampling(r)
  PROVE  Inv'
<1> DEFINE p == Delivered(net, r, "command")
<1>1. /\ Types /\ RootServes /\ OnOneWalk
      /\ In(r, "command") /\ p.cmd = "sampling" /\ Starts(r, p)
      /\ Becomes(r, Configured(runner[r], task'[r].arg)) /\ Return(r, net, client)
      /\ setup' = setup /\ prompt' = prompt
  BY DEF Inv, WorkerSetsSampling, Dispatch
<1>2. PICK o, tr, tr2, i, e0 :
        OnWay(r, o, tr, net, tr2, i) /\ Took(r, o, net, tr2, i, p, e0)
  BY <1>1, Takes
<1> HIDE DEF p
<1>3. p \in Payloads /\ p.arg \in Samplings /\ p.arg.penalties = FALSE
  BY <1>1, <1>2 DEF Took, Sent
<1>4. r \in Ranks /\ r # Root /\ task' \in [Ranks -> Payloads] /\ task'[Root] = task[Root]
      /\ task'[r] = p /\ runner[r] \in Runners
  BY <1>1, <1>3, WorkerTyped
<1>5. p.arg = OnTheWire(p.arg) /\ Becomes(r, Configured(runner[r], p.arg))
  BY <1>1, <1>3, <1>4 DEF OnTheWire, Samplings
<1>6. OnOneWalk' /\ Returned(r, client)
  BY <1>1, <1>2, <1>3, <1>4, <1>5, SamplingGoes
<1> DEFINE x == Configured(runner[r], p.arg)
<1>7. x \in Runners /\ x.sampling = p.arg
  <2>1. x \in Runners
    BY <1>3, <1>4, SharedConfigured
  <2> QED
    BY <1>4, <2>1 DEF Configured, Runners
<1>8. runner' = [runner EXCEPT ![r] = x]
  BY <1>5 DEF Becomes
<1> HIDE DEF x
<1>9. at' = [at EXCEPT ![r] = "command"] /\ client' = client
  BY <1>4, <1>6 DEF Returned
<1>10. "command" \in Places /\ "command" # "client" /\ x.sampling.penalties = FALSE
  BY <1>3, <1>7 DEF Places, Kinds, Broadcasts
<1>11. Types' /\ RootServes'
  BY <1>1, <1>4, <1>7, <1>8, <1>9, <1>10, WorkerKeeps
<1> QED
  BY <1>6, <1>11 DEF Inv

LEMMA WorkerPrefillsKeeps ==
  ASSUME Inv, NEW r \in Workers, WorkerPrefills(r)
  PROVE  Inv'
<1> DEFINE p == Delivered(net, r, "command")
<1>1. /\ Types /\ RootServes /\ OnOneWalk
      /\ In(r, "command") /\ p.cmd = "prefill" /\ Starts(r, p)
      /\ PrefillBody(r, net, task'[r].arg)
      /\ setup' = setup /\ prompt' = prompt
  BY DEF Inv, WorkerPrefills, Dispatch
<1>2. PICK o, tr, tr2, i, e0 :
        OnWay(r, o, tr, net, tr2, i) /\ Took(r, o, net, tr2, i, p, e0)
  BY <1>1, Takes
<1> HIDE DEF p
<1>3. p \in Payloads
  BY <1>2 DEF Took, Sent
<1>4. r \in Ranks /\ r # Root /\ task' \in [Ranks -> Payloads] /\ task'[Root] = task[Root]
      /\ task'[r] = p /\ runner[r] \in Runners /\ runner[r].sampling.penalties = FALSE
  BY <1>1, <1>3, WorkerTyped
<1>5. PrefillBody(r, net, p.arg)
  BY <1>1, <1>4
<1> DEFINE x == Primed(runner[r], p.arg)
<1>6. /\ OnOneWalk' /\ p.arg \in Prompts /\ x \in Runners /\ runner' = [runner EXCEPT ![r] = x]
      /\ \/ /\ at' = [at EXCEPT ![r] = IF r = Root THEN "client" ELSE "command"]
            /\ client' = IF r = Root THEN Failed(client) ELSE client
         \/ at' = [at EXCEPT ![r] = "forward"] /\ client' = client
  BY <1>1, <1>2, <1>4, <1>5, PrefillGoes
<1>7. x.sampling.penalties = FALSE
  BY <1>4, <1>6, SharedPrimed
<1> HIDE DEF x
<1>8. PICK place \in {"command", "forward"} : at' = [at EXCEPT ![r] = place] /\ client' = client
  BY <1>4, <1>6
<1>9. place \in Places /\ place # "client"
  BY DEF Places, Kinds, Broadcasts
<1>10. Types' /\ RootServes'
  BY <1>1, <1>4, <1>6, <1>7, <1>8, <1>9, WorkerKeeps
<1> QED
  BY <1>6, <1>10 DEF Inv

LEMMA WorkerDecodesKeeps ==
  ASSUME Inv, Matching(setup), NEW r \in Workers, WorkerDecodes(r)
  PROVE  Inv'
<1> DEFINE p == Delivered(net, r, "command")
<1>1. /\ Types /\ RootServes /\ OnOneWalk
      /\ In(r, "command") /\ p.cmd = "decode" /\ Starts(r, p)
      /\ DecodeBody(r, net)
      /\ setup' = setup /\ prompt' = prompt
  BY DEF Inv, WorkerDecodes, Dispatch
<1>2. PICK o, tr, tr2, i, e0 :
        OnWay(r, o, tr, net, tr2, i) /\ Took(r, o, net, tr2, i, p, e0)
  BY <1>1, Takes
<1> HIDE DEF p
<1>3. p \in Payloads
  BY <1>2 DEF Took, Sent
<1>4. r \in Ranks /\ r # Root /\ task' \in [Ranks -> Payloads] /\ task'[Root] = task[Root]
      /\ runner[r] \in Runners /\ runner[r].sampling.penalties = FALSE
  BY <1>1, <1>3, WorkerTyped
<1>4a. OnOneWalk' /\ Decoded(r)
  BY <1>1, <1>2, <1>4, DecodeGoes
<1>5. /\ OnOneWalk' /\ client' = client
      /\ \/ /\ \E k \in {"gather", "fence"} : at' = [at EXCEPT ![r] = k]
            /\ \E x \in Runners :
                 /\ runner' = [runner EXCEPT ![r] = x] /\ x.sampling = runner[r].sampling
         \/ runner' = runner /\ at' = [at EXCEPT ![r] = "forward"]
  BY <1>4a DEF Decoded
<1>6. PICK place \in {"gather", "fence", "forward"} : at' = [at EXCEPT ![r] = place]
  BY <1>5
<1>7. runner = [runner EXCEPT ![r] = runner[r]]
  BY <1>1, <1>4 DEF Types
<1>8. PICK x \in Runners : runner' = [runner EXCEPT ![r] = x] /\ x.sampling = runner[r].sampling
  BY <1>4, <1>5, <1>7
<1>9. place \in Places /\ place # "client" /\ x.sampling.penalties = FALSE
  BY <1>4, <1>8 DEF Places, Kinds, Broadcasts
<1>10. Types' /\ RootServes'
  BY <1>1, <1>4, <1>5, <1>6, <1>8, <1>9, WorkerKeeps
<1> QED
  BY <1>5, <1>10 DEF Inv

LEMMA WorkerForcesKeeps ==
  ASSUME Inv, NEW r \in Workers, WorkerForces(r)
  PROVE  Inv'
<1> DEFINE p == Delivered(net, r, "command")
<1>1. /\ Types /\ RootServes /\ OnOneWalk
      /\ In(r, "command") /\ p.cmd = "force" /\ Starts(r, p)
      /\ ForceBody(r, net, task'[r].arg)
      /\ setup' = setup /\ prompt' = prompt
  BY DEF Inv, WorkerForces, Dispatch
<1>2. PICK o, tr, tr2, i, e0 :
        OnWay(r, o, tr, net, tr2, i) /\ Took(r, o, net, tr2, i, p, e0)
  BY <1>1, Takes
<1> HIDE DEF p
<1>3. p \in Payloads
  BY <1>2 DEF Took, Sent
<1>4. r \in Ranks /\ r # Root /\ task' \in [Ranks -> Payloads] /\ task'[Root] = task[Root]
      /\ task'[r] = p /\ runner[r] \in Runners /\ runner[r].sampling.penalties = FALSE
  BY <1>1, <1>3, WorkerTyped
<1>5. ForceBody(r, net, p.arg)
  BY <1>1, <1>4
<1> DEFINE s == Ran(runner[r])
           y == Recorded(s, p.arg)
<1>6. /\ OnOneWalk' /\ client' = client /\ p.arg \in Tokens
      /\ \/ /\ runner[r].ready = TRUE /\ at' = [at EXCEPT ![r] = "fence"]
            /\ s \in Runners /\ y \in Runners
            /\ runner' = [runner EXCEPT ![r] = y]
         \/ /\ runner[r].ready = FALSE /\ runner' = runner
            /\ at' = [at EXCEPT ![r] = "forward"]
  <2>1. OnOneWalk' /\ p.arg \in Tokens /\ Forced(r, p.arg)
    BY <1>1, <1>2, <1>4, <1>5, ForceGoes
  <2> QED
    BY <2>1 DEF Forced
<1>7. runner = [runner EXCEPT ![r] = runner[r]]
  BY <1>1, <1>4 DEF Types
<1>8. y.sampling = runner[r].sampling
  <2>1. s \in Runners /\ s.sampling = runner[r].sampling
    BY <1>4, SharedRan
  <2> HIDE DEF s
  <2> QED
    BY <1>6, <2>1, SharedRecorded
<1> HIDE DEF s, y
<1>9. PICK place \in {"fence", "forward"}, x \in Runners :
        /\ at' = [at EXCEPT ![r] = place]
        /\ runner' = [runner EXCEPT ![r] = x] /\ x.sampling = runner[r].sampling
  BY <1>4, <1>6, <1>7, <1>8
<1>10. place \in Places /\ place # "client" /\ x.sampling.penalties = FALSE
  BY <1>4, <1>9 DEF Places, Kinds, Broadcasts
<1>11. Types' /\ RootServes'
  BY <1>1, <1>4, <1>6, <1>9, <1>10, WorkerKeeps
<1> QED
  BY <1>6, <1>11 DEF Inv

LEMMA WorkerExitsKeeps ==
  ASSUME Inv, NEW r \in Workers, WorkerExits(r)
  PROVE  Inv'
<1> DEFINE p == Delivered(net, r, "command")
<1>1. /\ Types /\ RootServes /\ OnOneWalk
      /\ In(r, "command") /\ Starts(r, p) /\ Goes(r, net, "exited")
      /\ setup' = setup /\ prompt' = prompt /\ client' = client /\ runner' = runner
  BY DEF Inv, WorkerExits, Dispatch
<1>2. PICK o, tr, tr2, i, e0 :
        OnWay(r, o, tr, net, tr2, i) /\ Took(r, o, net, tr2, i, p, e0)
  BY <1>1, Takes
<1> HIDE DEF p
<1>3. p \in Payloads
  BY <1>2 DEF Took, Sent
<1>4. r \in Ranks /\ r # Root /\ task' \in [Ranks -> Payloads] /\ task'[Root] = task[Root]
      /\ runner[r] \in Runners /\ runner[r].sampling.penalties = FALSE
  BY <1>1, <1>3, WorkerTyped
<1>5. /\ OnlyMoves(r) /\ Together(setup, net, o, tr, at, task, runner)
      /\ Underway(net, net, setup, o, tr, tr2, r)
      /\ i \in Nat /\ i = Index(net, o, "world", r) /\ i + 1 <= Front(net, o)
  BY <1>1, <1>2 DEF OnWay, OnlyMoves
<1>6. Front(net, o) \in Nat
  BY <1>5, WalkTypes DEF Underway
<1>7. OnOneWalk'
  <2>1. Index(net, o, "world", r) <= Front(net, o)
    BY <1>5, <1>6
  <2> QED
    BY <1>1, <1>4, <1>5, <2>1, ToRest
<1>8. at' = [at EXCEPT ![r] = "exited"] /\ "exited" \in Places
  BY <1>1 DEF Goes, Places
<1>9. runner' = [runner EXCEPT ![r] = runner[r]]
  BY <1>1, <1>4 DEF Types
<1>10. Types' /\ RootServes'
  BY <1>1, <1>4, <1>8, <1>9, WorkerKeeps
<1> QED
  BY <1>7, <1>10 DEF Inv

-----------------------------------------------------------------------------
(* A step of rank 0. *)

LEMMA PhaseTypes ==
  ASSUME NEW c \in Clients, NEW ph \in Phases, NEW d, d = [c EXCEPT !.phase = ph]
  PROVE  d \in Clients /\ d.phase = ph /\ d.prompt = c.prompt /\ d.sampling = c.sampling
BY DEF Clients

LEMMA ClientTypes ==
  /\ \A ph \in Phases : Waiting(ph) \in Clients /\ Waiting(ph).phase = ph
  /\ \A p \in Prompts, s \in Samplings, b \in Budgets :
       /\ NewRequest(p, s, b) \in Clients /\ NewRequest(p, s, b).phase = "sampling"
       /\ NewRequest(p, s, b).prompt = p /\ NewRequest(p, s, b).sampling = s
<1>1. Len(StopThinking) \in Nat /\ Len(StopThinking) # 0
  BY Parameters, EmptySeq, LenProperties
<1>2. 0 \in 0..Len(StopThinking) /\ 1 \in 0..Len(StopThinking)
  BY <1>1
<1>3. Greedy \in Samplings /\ NoBudget \in Int /\ Budgets \subseteq Int
  BY CoordinatedAssumption DEF Greedy, Samplings, NoBudget
<1>4. ASSUME NEW p \in Prompts \cup {<<>>}, NEW s \in Samplings, NEW b \in Int
      PROVE  /\ NewRequest(p, s, b) \in Clients /\ NewRequest(p, s, b).phase = "sampling"
             /\ NewRequest(p, s, b).prompt = p /\ NewRequest(p, s, b).sampling = s
  <2>1. (IF b = 0 THEN 1 ELSE 0) \in 0..Len(StopThinking)
    BY <1>2
  <2>2. (b # 0) \in BOOLEAN /\ "sampling" \in Phases
    BY DEF Phases
  <2> QED
    BY <2>1, <2>2 DEF NewRequest, Clients
<1>6. ASSUME NEW ph \in Phases
      PROVE  Waiting(ph) \in Clients /\ Waiting(ph).phase = ph
  BY <1>3, <1>4, PhaseTypes DEF Waiting
<1> QED
  BY <1>3, <1>4, <1>6

LEMMA ReceivedTypes ==
  ASSUME NEW c \in Clients, NEW t
  PROVE  /\ Received(c, t) \in Clients /\ Received(c, t).phase \in {c.phase, "ending"}
         /\ Received(c, t).prompt = c.prompt /\ Received(c, t).sampling = c.sampling
<1>1. Len(StopThinking) \in Nat /\ Len(StopThinking) # 0
  BY Parameters, EmptySeq, LenProperties
<1>2. /\ c.phase \in Phases /\ c.completion \in Int /\ c.thought \in Int
      /\ c.inThinking \in BOOLEAN /\ c.forcing \in 0..Len(StopThinking)
  BY DEF Clients
<1>3. (IF c.forcing = 0 \/ c.forcing = Len(StopThinking) THEN 0 ELSE c.forcing + 1)
        \in 0..Len(StopThinking)
  BY <1>1, <1>2
<1>4. 1 \in 0..Len(StopThinking) /\ "ending" \in Phases
  BY <1>1 DEF Phases
<1> DEFINE ph == IF t \in StopTokens \/ c.completion + 1 >= MaxTokens THEN "ending" ELSE c.phase
<1>5. PICK a, b, h :
        /\ b \in Int /\ a \in BOOLEAN /\ h \in 0..Len(StopThinking)
        /\ Received(c, t) =
             [c EXCEPT !.completion = c.completion + 1, !.phase = ph, !.thought = b,
                       !.inThinking = a, !.forcing = h]
  <2> DEFINE stop == t \in StopTokens
             counting == c.budget # NoBudget /\ c.inThinking /\ ~stop
             thinks == counting /\ t \notin EndTags
             over == thinks /\ c.thought + 1 >= c.budget
             a == c.inThinking /\ ~(counting /\ t \in EndTags) /\ ~over
             b == IF thinks THEN c.thought + 1 ELSE c.thought
             h == IF over THEN 1
                  ELSE IF c.forcing = 0 \/ c.forcing = Len(StopThinking) THEN 0
                  ELSE c.forcing + 1
  <2>1. b \in Int /\ a \in BOOLEAN /\ h \in 0..Len(StopThinking)
    BY <1>2, <1>3, <1>4
  <2>2. Received(c, t) =
          [c EXCEPT !.completion = c.completion + 1, !.phase = ph, !.thought = b,
                    !.inThinking = a, !.forcing = h]
    BY DEF Received
  <2> QED
    BY <2>1, <2>2
<1>6. ph \in Phases /\ ph \in {c.phase, "ending"} /\ c.completion + 1 \in Int
  BY <1>2, <1>4
<1> HIDE DEF ph
<1> QED
  BY <1>5, <1>6 DEF Clients

LEMMA RootTyped ==
  ASSUME Types, NEW place \in Places, place \notin {"command", "token"},
         at' = [at EXCEPT ![Root] = place],
         NEW x \in Runners, runner' = [runner EXCEPT ![Root] = x],
         task' \in [Ranks -> Payloads], client' \in Clients,
         prompt' \in Prompts \cup {<<>>}, setup' = setup
  PROVE  Types' /\ at'[Root] = place /\ runner'[Root] = x
<1>1. Root \in Ranks /\ \A w \in Workers : w \in Ranks /\ w # Root
  BY Parameters DEF Workers
<1>2. at'[Root] = place /\ runner'[Root] = x
  BY <1>1 DEF Types
<1>3. at' \in [Ranks -> Places] /\ runner' \in [Ranks -> Runners]
  BY <1>1 DEF Types
<1>4. \A w \in Workers : at'[w] # "client" /\ runner'[w].sampling.penalties = FALSE
  BY <1>1 DEF Types
<1> QED
  BY <1>2, <1>3, <1>4 DEF Types

(* What a command of rank 0 starts from.                                   *)
LEMMA RootPublishes ==
  ASSUME Inv, NEW cmd, NEW arg, Publish(cmd, arg), setup' = setup,
         Sent("command", [cmd |-> cmd, arg |-> arg])
  PROVE  LET p == [cmd |-> cmd, arg |-> arg]
         IN /\ at[Root] = "client" /\ task' \in [Ranks -> Payloads] /\ task'[Root] = p
            /\ runner[Root] \in Runners /\ Root \in Ranks
            /\ \E o, tr, tr2, i, e0 :
                 /\ OnWay(Root, o, tr, Published(cmd, arg), tr2, i)
                 /\ Took(Root, o, Published(cmd, arg), tr2, i, p, e0)
<1> DEFINE p == [cmd |-> cmd, arg |-> arg]
<1>1. Types /\ OnOneWalk /\ Root \in Ranks
  BY Parameters DEF Inv
<1>2. at[Root] = "client" /\ task' = [task EXCEPT ![Root] = p]
  BY DEF Publish, Starts
<1>3. p \in Payloads /\ Published(cmd, arg) = Entered(net, Root, "command", p)
  BY DEF Sent, Published
<1>4. task' \in [Ranks -> Payloads] /\ task'[Root] = p /\ runner[Root] \in Runners
  BY <1>1, <1>2, <1>3 DEF Types
<1> HIDE DEF p
<1>5. \E o, tr, tr2, i, e0 :
        /\ OnWay(Root, o, tr, Entered(net, Root, "command", p), tr2, i)
        /\ Took(Root, o, Entered(net, Root, "command", p), tr2, i, p, e0)
  <2>1. Sent("command", p)
    BY DEF p
  <2> QED
    BY <1>1, <1>2, <2>1, Publishes
<1>6. \E o, tr, tr2, i, e0 :
        /\ OnWay(Root, o, tr, Published(cmd, arg), tr2, i)
        /\ Took(Root, o, Published(cmd, arg), tr2, i, p, e0)
  BY <1>3, <1>5
<1> QED
  BY <1>1, <1>2, <1>4, <1>6 DEF p

LEMMA ClearSent == Sent("command", [cmd |-> "clear", arg |-> 0])
BY DEF Sent, Payloads, Cmds, Commands, Args

LEMMA HandleRequestKeeps ==
  ASSUME Inv, HandleRequest
  PROVE  Inv'
<1> DEFINE p == [cmd |-> "clear", arg |-> 0]
           n == Published("clear", 0)
           x == Cleared(runner[Root])
<1>1. PICK q \in Prompts, sampling \in setup.samplings, b \in Budgets :
        client' = NewRequest(q, sampling, b) /\ prompt' = q
  BY DEF HandleRequest
<1>2. /\ Types /\ Publish("clear", 0) /\ Becomes(Root, x) /\ Goes(Root, n, "client")
      /\ setup' = setup
  BY DEF HandleRequest, Inv
<1>3. /\ at[Root] = "client" /\ task' \in [Ranks -> Payloads] /\ task'[Root] = p
      /\ runner[Root] \in Runners /\ Root \in Ranks
      /\ \E o, tr, tr2, i, e0 : OnWay(Root, o, tr, n, tr2, i) /\ Took(Root, o, n, tr2, i, p, e0)
  BY <1>2, ClearSent, RootPublishes
<1>4. p.cmd = "clear" /\ Return(Root, n, client')
  BY <1>2 DEF Return
<1>5. x \in Runners /\ x.fed = <<>> /\ x.history = <<>> /\ x.ready = FALSE
  <2>1. x \in Runners
    BY <1>3, SharedCleared
  <2> QED
    BY <1>3, <2>1 DEF Cleared, Runners
<1> HIDE DEF p, n
<1>6. PICK o, tr, tr2, i, e0 : OnWay(Root, o, tr, n, tr2, i) /\ Took(Root, o, n, tr2, i, p, e0)
  BY <1>3
<1>7. OnOneWalk'
  BY <1>2, <1>3, <1>4, <1>6, ClearGoes
<1>8. sampling \in Samplings
  BY <1>2, Parameters DEF Types
<1>9. client' \in Clients /\ client'.phase = "sampling" /\ client'.prompt = q
      /\ client'.sampling = sampling
  BY <1>1, <1>8, ClientTypes
<1> HIDE DEF x
<1>10. "client" \in Places /\ at' = [at EXCEPT ![Root] = "client"]
       /\ runner' = [runner EXCEPT ![Root] = x]
  BY <1>2 DEF Places, Goes, Becomes
<1>11. Types' /\ at'[Root] = "client" /\ runner'[Root] = x
  <2>1. prompt' \in Prompts \cup {<<>>}
    BY <1>1
  <2> QED
    BY <1>2, <1>3, <1>5, <1>9, <1>10, <2>1, RootTyped
<1>12. RootServes'
  BY <1>1, <1>2, <1>5, <1>9, <1>11 DEF RootServes
<1> QED
  BY <1>7, <1>11, <1>12 DEF Inv

LEMMA EndRequestKeeps ==
  ASSUME Inv, EndRequest
  PROVE  Inv'
<1> DEFINE p == [cmd |-> "clear", arg |-> 0]
           n == Published("clear", 0)
           x == Cleared(runner[Root])
<1>1. client' = Waiting("idle") /\ prompt' = prompt
  BY DEF EndRequest
<1>2. /\ Types /\ Publish("clear", 0) /\ Becomes(Root, x) /\ Goes(Root, n, "client")
      /\ setup' = setup
  BY DEF EndRequest, Inv
<1>3. /\ at[Root] = "client" /\ task' \in [Ranks -> Payloads] /\ task'[Root] = p
      /\ runner[Root] \in Runners /\ Root \in Ranks
      /\ \E o, tr, tr2, i, e0 : OnWay(Root, o, tr, n, tr2, i) /\ Took(Root, o, n, tr2, i, p, e0)
  BY <1>2, ClearSent, RootPublishes
<1>4. p.cmd = "clear" /\ Return(Root, n, client')
  BY <1>2 DEF Return
<1>5. x \in Runners
  BY <1>3, SharedCleared
<1> HIDE DEF p, n
<1>6. PICK o, tr, tr2, i, e0 : OnWay(Root, o, tr, n, tr2, i) /\ Took(Root, o, n, tr2, i, p, e0)
  BY <1>3
<1>7. OnOneWalk'
  BY <1>2, <1>3, <1>4, <1>6, ClearGoes
<1>9. client' \in Clients /\ client'.phase = "idle"
  BY <1>1, ClientTypes DEF Phases
<1> HIDE DEF x
<1>10. "client" \in Places /\ at' = [at EXCEPT ![Root] = "client"]
       /\ runner' = [runner EXCEPT ![Root] = x]
  BY <1>2 DEF Places, Goes, Becomes
<1>11. Types' /\ at'[Root] = "client" /\ runner'[Root] = x
  <2>1. prompt' \in Prompts \cup {<<>>}
    BY <1>1, <1>2 DEF Types
  <2> QED
    BY <1>2, <1>3, <1>5, <1>9, <1>10, <2>1, RootTyped
<1>12. RootServes'
  BY <1>9, <1>11 DEF RootServes
<1> QED
  BY <1>7, <1>11, <1>12 DEF Inv

LEMMA SetSamplingKeeps ==
  ASSUME Inv, SetSampling
  PROVE  Inv'
<1> DEFINE q == client.sampling
           p == [cmd |-> "sampling", arg |-> OnTheWire(q)]
           n == Published("sampling", OnTheWire(q))
           x == Configured(runner[Root], q)
<1>1. /\ client' = IF Len(client.prompt) > MaxContext THEN Failed(client)
                   ELSE [client EXCEPT !.phase = "prefill"]
      /\ prompt' = prompt /\ client.phase = "sampling"
  BY DEF SetSampling
<1>2. /\ Types /\ RootServes /\ Publish("sampling", OnTheWire(q)) /\ Becomes(Root, x)
      /\ Goes(Root, n, "client") /\ setup' = setup /\ q \in Samplings
  BY DEF SetSampling, Inv, Types, Clients
<1>2a. Sent("command", p)
  BY <1>2 DEF Sent, Payloads, Cmds, Commands, Args, OnTheWire, Samplings
<1>3. /\ at[Root] = "client" /\ task' \in [Ranks -> Payloads] /\ task'[Root] = p
      /\ runner[Root] \in Runners /\ Root \in Ranks
      /\ \E o, tr, tr2, i, e0 : OnWay(Root, o, tr, n, tr2, i) /\ Took(Root, o, n, tr2, i, p, e0)
  BY <1>2, <1>2a, RootPublishes
<1>4. p.cmd = "sampling" /\ p.arg = OnTheWire(q) /\ Return(Root, n, client')
  BY <1>2 DEF Return
<1>5. x \in Runners /\ x.fed = runner[Root].fed /\ x.history = <<>>
      /\ x.ready = runner[Root].ready /\ x.sampling = q
  <2>1. x \in Runners
    BY <1>2, <1>3, SharedConfigured
  <2> QED
    BY <1>3, <2>1 DEF Configured, Runners
<1> HIDE DEF p, n
<1>6. PICK o, tr, tr2, i, e0 : OnWay(Root, o, tr, n, tr2, i) /\ Took(Root, o, n, tr2, i, p, e0)
  BY <1>3
<1>7. OnOneWalk'
  BY <1>2, <1>3, <1>4, <1>6, SamplingGoes
<1>9. client' \in Clients /\ client'.phase \in {"prefill", "ending"}
      /\ client'.prompt = client.prompt /\ client'.sampling = q
  <2>1. client \in Clients /\ "prefill" \in Phases /\ "ending" \in Phases
    BY <1>2 DEF Types, Phases
  <2>2. client' = [client EXCEPT !.phase = "prefill"] \/ client' = [client EXCEPT !.phase = "ending"]
    BY <1>1 DEF Failed
  <2> QED
    BY <2>1, <2>2, PhaseTypes
<1> HIDE DEF x
<1>10. "client" \in Places /\ at' = [at EXCEPT ![Root] = "client"]
       /\ runner' = [runner EXCEPT ![Root] = x]
  BY <1>2 DEF Places, Goes, Becomes
<1>11. Types' /\ at'[Root] = "client" /\ runner'[Root] = x
  <2>1. prompt' \in Prompts \cup {<<>>}
    BY <1>1, <1>2 DEF Types
  <2> QED
    BY <1>2, <1>3, <1>5, <1>9, <1>10, <2>1, RootTyped
<1>12. RootServes'
  BY <1>1, <1>2, <1>5, <1>9, <1>11 DEF RootServes
<1> QED
  BY <1>7, <1>11, <1>12 DEF Inv

LEMMA Told ==
  ASSUME NEW p \in Prompts \cup {<<>>}, NEW h \in Seq(Tokens), NEW t \in Tokens
  PROVE  p \o Append(h, t) = Append(p \o h, t)
<1>1. p \in Seq(Tokens) /\ p \o h \in Seq(Tokens)
  BY Parameters, EmptySeq, ConcatProperties
<1>2. <<t>> \in Seq(Tokens)
  OBVIOUS
<1>3. p \o Append(h, t) = p \o (h \o <<t>>)
  BY AppendIsConcat
<1>4. p \o (h \o <<t>>) = (p \o h) \o <<t>>
  BY <1>1, <1>2, ConcatAssociative
<1>5. Append(p \o h, t) = (p \o h) \o <<t>>
  BY <1>1, AppendIsConcat
<1> QED
  BY <1>3, <1>4, <1>5

LEMMA StartServerKeeps ==
  ASSUME Inv, StartServer
  PROVE  Inv'
<1>1. PICK o, tr : Together(setup, net, o, tr, at, task, runner)
  BY DEF Inv, OnOneWalk
<1>2. /\ Types /\ RootServes /\ client.phase = "starting" /\ client \in Clients
      /\ net' = net /\ task' = task /\ runner' = runner /\ setup' = setup /\ prompt' = prompt
      /\ \/ client' = [client EXCEPT !.phase = "idle"] /\ at' = at
         \/ /\ client' = [client EXCEPT !.phase = "exited"]
            /\ at' = [at EXCEPT ![Root] = "exited"]
  BY DEF Inv, StartServer, Types
<1>3. at[Root] = "client" /\ Root \in Ranks /\ runner[Root] \in Runners
  BY <1>2, Parameters DEF RootServes, Types
<1>4. PICK place \in {"client", "exited"}, ph \in {"idle", "exited"} :
        /\ at' = [at EXCEPT ![Root] = place] /\ client' = [client EXCEPT !.phase = ph]
        /\ place = "exited" => ph = "exited"
  BY <1>2, <1>3 DEF Types
<1>5. place \in Places /\ ph \in Phases /\ place \notin Kinds /\ place \notin WorldKinds
      /\ place \notin DomainKinds /\ "client" \notin Kinds
  BY Places0 DEF Phases
<1>6. client' \in Clients /\ client'.phase = ph
  BY <1>2, <1>4, <1>5, PhaseTypes
<1>7. Types' /\ at'[Root] = place
  <2>1. runner' = [runner EXCEPT ![Root] = runner[Root]]
    BY <1>2, <1>3 DEF Types
  <2>2. task' \in [Ranks -> Payloads] /\ prompt' \in Prompts \cup {<<>>}
    BY <1>2 DEF Types
  <2> QED
    BY <1>2, <1>3, <1>4, <1>5, <1>6, <2>1, <2>2, RootTyped
<1>8. RootServes'
  BY <1>4, <1>6, <1>7 DEF RootServes
<1>9. \A q \in Ranks \ {Root} : at'[q] = at[q]
  BY <1>4 DEF Types
<1>10. ASSUME NEW c \in Comms, NEW q \in Ranks
       PROVE  Left(net, at', c, q) = Left(net, at, c, q)
  BY <1>3, <1>5, <1>7, <1>9 DEF Left
<1>11. ASSUME NEW q \in Ranks
       PROVE  Stands(setup, tr, Front(net, o), Index(net, o, "world", q),
                     Index(net, o, "domain", q), at'[q], task[q], runner[q])
  <2>1. Stands(setup, tr, Front(net, o), Index(net, o, "world", q),
               Index(net, o, "domain", q), at[q], task[q], runner[q])
    BY <1>1 DEF Together
  <2>2. CASE q # Root
    BY <1>9, <2>1, <2>2
  <2>3. CASE q = Root
    <3>1. CASE place = "client"
      BY <1>3, <1>7, <2>1, <2>3, <3>1
    <3>2. CASE place = "exited"
      BY <1>5, <1>7, <2>1, <2>3, <3>2 DEF Stands
    <3> QED
      BY <3>1, <3>2
  <2> QED
    BY <2>2, <2>3
<1> DEFINE pl == at'
<1>12. \A c \in Comms, q \in Ranks : Left(net, pl, c, q) >= 0
  BY <1>1, <1>10 DEF Together
<1>13. Together(setup, net, o, tr, pl, task, runner)
  <2> HIDE DEF pl
  <2>1. \A q \in Ranks :
          Stands(setup, tr, Front(net, o), Index(net, o, "world", q),
                 Index(net, o, "domain", q), pl[q], task[q], runner[q])
    BY <1>11 DEF pl
  <2> QED
    BY <1>1, <1>12, <2>1 DEF Together
<1>14. OnOneWalk'
  BY <1>2, <1>13 DEF OnOneWalk
<1> QED
  BY <1>7, <1>8, <1>14 DEF Inv

LEMMA ShutdownKeeps ==
  ASSUME Inv, Shutdown
  PROVE  Inv'
<1> DEFINE p == [cmd |-> "shutdown", arg |-> 0]
           n == Published("shutdown", 0)
<1>1. /\ Types /\ Publish("shutdown", 0) /\ Goes(Root, n, "exited")
      /\ client' = [client EXCEPT !.phase = "exited"]
      /\ runner' = runner /\ setup' = setup /\ prompt' = prompt
  BY DEF Inv, Shutdown
<1>2. Sent("command", p)
  BY DEF Sent, Payloads, Cmds, Commands, Args
<1>3. /\ at[Root] = "client" /\ task' \in [Ranks -> Payloads] /\ task'[Root] = p
      /\ runner[Root] \in Runners /\ Root \in Ranks
      /\ \E o, tr, tr2, i, e0 : OnWay(Root, o, tr, n, tr2, i) /\ Took(Root, o, n, tr2, i, p, e0)
  BY <1>1, <1>2, RootPublishes
<1> HIDE DEF p, n
<1>4. PICK o, tr, tr2, i, e0 : OnWay(Root, o, tr, n, tr2, i) /\ Took(Root, o, n, tr2, i, p, e0)
  BY <1>3
<1>5. /\ OnlyMoves(Root) /\ Together(setup, net, o, tr, at, task, runner)
      /\ Underway(net, n, setup, o, tr, tr2, Root)
      /\ i \in Nat /\ i = Index(n, o, "world", Root) /\ i + 1 <= Front(n, o)
  BY <1>1, <1>4 DEF OnWay, OnlyMoves
<1>6. Index(n, o, "world", Root) <= Front(n, o)
  <2>1. Front(n, o) \in Nat
    BY <1>5, WalkTypes DEF Underway
  <2> QED
    BY <1>5, <2>1
<1>7. OnOneWalk'
  BY <1>1, <1>3, <1>5, <1>6, ToRest
<1>8. at' = [at EXCEPT ![Root] = "exited"] /\ "exited" \in Places /\ "exited" \in Phases
  BY <1>1 DEF Goes, Places, Phases
<1>9. client' \in Clients /\ client'.phase = "exited"
  BY <1>1, <1>8, PhaseTypes DEF Types
<1>10. Types' /\ at'[Root] = "exited"
  <2>1. runner' = [runner EXCEPT ![Root] = runner[Root]] /\ prompt' \in Prompts \cup {<<>>}
    BY <1>1, <1>3 DEF Types
  <2> QED
    BY <1>1, <1>3, <1>8, <1>9, <2>1, RootTyped
<1>11. RootServes'
  BY <1>9, <1>10 DEF RootServes
<1> QED
  BY <1>7, <1>10, <1>11 DEF Inv

LEMMA PrefillKeeps ==
  ASSUME Inv, Prefill
  PROVE  Inv'
<1> DEFINE q == client.prompt
           p == [cmd |-> "prefill", arg |-> q]
           n == Published("prefill", q)
           x == Primed(runner[Root], q)
<1>1. /\ Types /\ RootServes /\ client.phase = "prefill" /\ client \in Clients
      /\ Publish("prefill", q) /\ PrefillBody(Root, n, q)
      /\ setup' = setup /\ prompt' = prompt
  BY DEF Inv, Prefill, Types
<1>2. /\ q \in Prompts /\ q = prompt /\ runner[Root].sampling = client.sampling
      /\ client.sampling \in setup.samplings
      /\ runner[Root].fed = <<>> /\ runner[Root].history = <<>> /\ runner[Root].ready = FALSE
  BY <1>1 DEF RootServes
<1>3. Sent("command", p) /\ p.cmd = "prefill" /\ p.arg = q
  BY <1>2 DEF Sent, Payloads, Cmds, Commands, Args
<1>4. /\ at[Root] = "client" /\ task' \in [Ranks -> Payloads] /\ task'[Root] = p
      /\ runner[Root] \in Runners /\ Root \in Ranks
      /\ \E o, tr, tr2, i, e0 : OnWay(Root, o, tr, n, tr2, i) /\ Took(Root, o, n, tr2, i, p, e0)
  BY <1>1, <1>3, RootPublishes
<1> HIDE DEF p, n
<1>5. PICK o, tr, tr2, i, e0 : OnWay(Root, o, tr, n, tr2, i) /\ Took(Root, o, n, tr2, i, p, e0)
  BY <1>4
<1>6. /\ OnOneWalk' /\ Primed(runner[Root], p.arg) \in Runners
      /\ runner' = [runner EXCEPT ![Root] = Primed(runner[Root], p.arg)]
      /\ \/ /\ at' = [at EXCEPT ![Root] = IF Root = Root THEN "client" ELSE "command"]
            /\ client' = IF Root = Root THEN Failed(client) ELSE client
         \/ at' = [at EXCEPT ![Root] = "forward"] /\ client' = client
  <2>1. PrefillBody(Root, n, p.arg)
    BY <1>1, <1>3
  <2> QED
    BY <1>1, <1>3, <1>4, <1>5, <2>1, PrefillGoes
<1>7. /\ x \in Runners /\ runner' = [runner EXCEPT ![Root] = x]
      /\ x.fed = <<>> /\ x.history = <<>> /\ x.ready = FALSE /\ x.last = prompt[Len(prompt)]
      /\ x.sampling = client.sampling
  BY <1>2, <1>3, <1>4, <1>6 DEF Primed, Runners
<1> HIDE DEF x
<1>8. PICK place \in {"client", "forward"}, ph \in {"prefill", "ending"} :
        /\ at' = [at EXCEPT ![Root] = place] /\ client' = [client EXCEPT !.phase = ph]
        /\ place = "forward" => ph = "prefill"
  <2>1. client = [client EXCEPT !.phase = "prefill"]
    BY <1>1 DEF Clients
  <2> QED
    BY <1>6, <2>1 DEF Failed
<1>9. place \in Places /\ ph \in Phases
  BY DEF Places, Kinds, Phases
<1>10. /\ client' \in Clients /\ client'.phase = ph
       /\ client'.prompt = client.prompt /\ client'.sampling = client.sampling
  BY <1>1, <1>8, <1>9, PhaseTypes
<1>11. Types' /\ at'[Root] = place /\ runner'[Root] = x
  <2>1. prompt' \in Prompts \cup {<<>>}
    BY <1>1 DEF Types
  <2> QED
    BY <1>1, <1>4, <1>7, <1>8, <1>9, <1>10, <2>1, RootTyped
<1>12. task'[Root].cmd = "prefill" /\ task'[Root].arg = prompt
  BY <1>2, <1>3, <1>4
<1>13. RootServes'
  BY <1>1, <1>2, <1>7, <1>8, <1>10, <1>11, <1>12 DEF RootServes
<1> QED
  BY <1>6, <1>11, <1>13 DEF Inv

LEMMA DecodeStepKeeps ==
  ASSUME Inv, Matching(setup), DecodeStep
  PROVE  Inv'
<1> DEFINE p == [cmd |-> "decode", arg |-> 0]
           n == Published("decode", 0)
<1>1. /\ Types /\ RootServes /\ client.phase = "decode" /\ client \in Clients
      /\ Publish("decode", 0) /\ DecodeBody(Root, n)
      /\ setup' = setup /\ prompt' = prompt
  BY DEF Inv, DecodeStep, Types
<1>2. Sent("command", p) /\ p.cmd = "decode"
  BY DEF Sent, Payloads, Cmds, Commands, Args
<1>3. /\ at[Root] = "client" /\ task' \in [Ranks -> Payloads] /\ task'[Root] = p
      /\ runner[Root] \in Runners /\ Root \in Ranks
      /\ \E o, tr, tr2, i, e0 : OnWay(Root, o, tr, n, tr2, i) /\ Took(Root, o, n, tr2, i, p, e0)
  BY <1>1, <1>2, RootPublishes
<1> HIDE DEF p, n
<1>4. PICK o, tr, tr2, i, e0 : OnWay(Root, o, tr, n, tr2, i) /\ Took(Root, o, n, tr2, i, p, e0)
  BY <1>3
<1>5. OnOneWalk' /\ Decoded(Root)
  BY <1>1, <1>2, <1>3, <1>4, DecodeGoes
<1>6. /\ client.sampling \in setup.samplings /\ client.prompt \in Prompts /\ client.prompt = prompt
      /\ runner[Root].sampling = client.sampling
      /\ Behind(runner[Root]) \/ (runner[Root].ready = TRUE /\ Caught(runner[Root]))
  BY <1>1, <1>3 DEF RootServes
<1>7. client' = client
  BY <1>5 DEF Decoded
<1>8. task'[Root].cmd = "decode"
  BY <1>2, <1>3
<1>9. CASE runner[Root].ready = TRUE
  <2>1. PICK k \in {"gather", "fence"}, x \in Runners :
          /\ at' = [at EXCEPT ![Root] = k] /\ runner' = [runner EXCEPT ![Root] = x]
          /\ x.fed = runner[Root].fed /\ x.ready = FALSE
          /\ x.history = runner[Root].history /\ x.sampling = runner[Root].sampling
    BY <1>5, <1>9 DEF Decoded
  <2>2. k \in Places /\ k \notin {"command", "token"}
    BY DEF Places, Kinds
  <2>3. Types' /\ at'[Root] = k /\ runner'[Root] = x
    <3>1. prompt' \in Prompts \cup {<<>>}
      BY <1>1 DEF Types
    <3> QED
      BY <1>1, <1>3, <1>7, <2>1, <2>2, <3>1, RootTyped
  <2>4. prompt \o x.history = x.fed
    BY <1>6, <1>9, <2>1 DEF Caught, Behind
  <2>5. RootServes'
    BY <1>1, <1>6, <1>7, <1>8, <2>1, <2>3, <2>4 DEF RootServes, Caught
  <2> QED
    BY <1>5, <2>3, <2>5 DEF Inv
<1>10. CASE runner[Root].ready = FALSE
  <2>1. runner' = runner /\ at' = [at EXCEPT ![Root] = "forward"]
    BY <1>5, <1>10 DEF Decoded
  <2>2. Types' /\ at'[Root] = "forward"
    <3>1. prompt' \in Prompts \cup {<<>>} /\ runner' = [runner EXCEPT ![Root] = runner[Root]]
      BY <1>1, <1>3, <2>1 DEF Types
    <3>2. "forward" \in Places
      BY DEF Places, Kinds
    <3> QED
      BY <1>1, <1>3, <1>7, <2>1, <3>1, <3>2, RootTyped
  <2>3. Behind(runner[Root])
    BY <1>6, <1>10
  <2>4. RootServes'
    BY <1>1, <1>6, <1>7, <1>8, <2>1, <2>2, <2>3 DEF RootServes, Behind
  <2> QED
    BY <1>5, <2>2, <2>4 DEF Inv
<1> QED
  BY <1>3, <1>9, <1>10, SharedFields

LEMMA ForceDecodeTokenKeeps ==
  ASSUME Inv, ForceDecodeToken
  PROVE  Inv'
<1> DEFINE t == StopThinking[client.forcing]
           p == [cmd |-> "force", arg |-> t]
           n == Published("force", t)
           s == Ran(runner[Root])
           x == Recorded(s, t)
<1>1. /\ Types /\ RootServes /\ client.phase = "decode" /\ client.forcing # 0 /\ client \in Clients
      /\ Publish("force", t) /\ ForceBody(Root, n, t)
      /\ setup' = setup /\ prompt' = prompt
  BY DEF Inv, ForceDecodeToken, Types
<1>2. t \in Tokens
  <2>1. client.forcing \in 1..Len(StopThinking)
    <3>1. client.forcing \in 0..Len(StopThinking) /\ Len(StopThinking) \in Nat
      BY <1>1, Parameters, LenProperties DEF Clients
    <3> QED
      BY <1>1, <3>1
  <2> QED
    BY <2>1, Parameters, ElementOfSeq
<1> HIDE DEF t
<1>3. Sent("command", p) /\ p.cmd = "force" /\ p.arg = t
  BY <1>2 DEF Sent, Payloads, Cmds, Commands, Args
<1>4. /\ at[Root] = "client" /\ task' \in [Ranks -> Payloads] /\ task'[Root] = p
      /\ runner[Root] \in Runners /\ Root \in Ranks
      /\ \E o, tr, tr2, i, e0 : OnWay(Root, o, tr, n, tr2, i) /\ Took(Root, o, n, tr2, i, p, e0)
  BY <1>1, <1>3, RootPublishes
<1> HIDE DEF p, n
<1>5. PICK o, tr, tr2, i, e0 : OnWay(Root, o, tr, n, tr2, i) /\ Took(Root, o, n, tr2, i, p, e0)
  BY <1>4
<1>6. OnOneWalk' /\ Forced(Root, t)
  <2>1. ForceBody(Root, n, p.arg)
    BY <1>1, <1>3
  <2>2. OnOneWalk' /\ Forced(Root, p.arg)
    BY <1>1, <1>3, <1>4, <1>5, <2>1, ForceGoes
  <2> QED
    BY <1>3, <2>2
<1>7. /\ client.sampling \in setup.samplings /\ client.prompt \in Prompts /\ client.prompt = prompt
      /\ runner[Root].sampling = client.sampling
      /\ Behind(runner[Root]) \/ (runner[Root].ready = TRUE /\ Caught(runner[Root]))
  BY <1>1, <1>4 DEF RootServes
<1>8. client' = client
  BY <1>6 DEF Forced
<1>9. task'[Root].cmd = "force"
  BY <1>3, <1>4
<1>10. CASE runner[Root].ready = TRUE
  <2>1. /\ at' = [at EXCEPT ![Root] = "fence"] /\ runner' = [runner EXCEPT ![Root] = x]
        /\ x \in Runners
    BY <1>6, <1>10 DEF Forced
  <2>2. /\ s \in Runners /\ s.ready = FALSE /\ s.history = runner[Root].history
        /\ s.fed = runner[Root].fed /\ s.sampling = runner[Root].sampling
    <3>1. /\ s \in Runners /\ s.ready = FALSE /\ s.history = runner[Root].history
          /\ s.sampling = runner[Root].sampling
      BY <1>4, SharedRan
    <3>2. s.fed = runner[Root].fed
      BY <1>4, <1>10 DEF Ran, Runners
    <3> QED
      BY <3>1, <3>2
  <2> HIDE DEF s
  <2>3. /\ x.history = Append(s.history, t) /\ x.last = t /\ x.fed = s.fed
        /\ x.ready = FALSE /\ x.sampling = s.sampling
    BY <1>2, <2>2, SharedRecorded
  <2> HIDE DEF x
  <2>4. Types' /\ at'[Root] = "fence" /\ runner'[Root] = x
    <3>1. prompt' \in Prompts \cup {<<>>}
      BY <1>1 DEF Types
    <3>2. "fence" \in Places
      BY DEF Places, Kinds
    <3> QED
      BY <1>1, <1>4, <1>8, <2>1, <3>1, <3>2, RootTyped
  <2>5. prompt \o x.history = Append(x.fed, x.last)
    <3>1. prompt \o s.history = s.fed
      BY <1>7, <1>10, <2>2 DEF Caught, Behind
    <3>2. prompt \o Append(s.history, t) = Append(prompt \o s.history, t)
      <4>1. s.history \in Seq(Tokens)
        BY <2>2, SharedFields
      <4> QED
        BY <1>2, <1>7, <4>1, Told
    <3> QED
      BY <2>3, <3>1, <3>2
  <2>6. RootServes'
    BY <1>1, <1>7, <1>8, <1>9, <2>2, <2>3, <2>4, <2>5 DEF RootServes, Behind
  <2> QED
    BY <1>6, <2>4, <2>6 DEF Inv
<1>11. CASE runner[Root].ready = FALSE
  <2>1. runner' = runner /\ at' = [at EXCEPT ![Root] = "forward"]
    BY <1>6, <1>11 DEF Forced
  <2>2. Types' /\ at'[Root] = "forward"
    <3>1. prompt' \in Prompts \cup {<<>>} /\ runner' = [runner EXCEPT ![Root] = runner[Root]]
      BY <1>1, <1>4, <2>1 DEF Types
    <3>2. "forward" \in Places
      BY DEF Places, Kinds
    <3> QED
      BY <1>1, <1>4, <1>8, <2>1, <3>1, <3>2, RootTyped
  <2>3. Behind(runner[Root])
    BY <1>7, <1>11
  <2>4. RootServes'
    BY <1>1, <1>7, <1>8, <1>9, <2>1, <2>2, <2>3 DEF RootServes, Behind
  <2> QED
    BY <1>6, <2>2, <2>4 DEF Inv
<1> QED
  BY <1>4, <1>10, <1>11, SharedFields

-----------------------------------------------------------------------------
(* A rank leaves a call inside a command. *)

LEMMA InDomain ==
  ASSUME Types, OnOneWalk, NEW r \in Ranks, at[r] \in DomainKinds, setup' = setup, task' = task
  PROVE  \E o, tr, i :
           /\ OnWay(r, o, tr, net, tr, i)
           /\ tr[i + 1] \in Stations /\ tr[i + 1].task = task[r]
           /\ Heading(setup, tr[i + 1], Index(net, o, "domain", r), at[r], task[r], runner[r])
<1>1. PICK o, tr : Together(setup, net, o, tr, at, task, runner)
  BY DEF OnOneWalk
<1>2. Wired(net) /\ Walk(setup, net, o, tr)
  BY <1>1 DEF Together
<1>3. Underway(net, net, setup, o, tr, tr, r)
  BY <1>2, SetsOut
<1> DEFINE i == Index(net, o, "world", r)
<1>4. i \in Nat
  <2>1. net.made["world"][r] \in Nat /\ o["world"] \in Nat
    BY <1>2, WalkTypes
  <2> QED
    BY <2>1 DEF Index
<1>5. Stands(setup, tr, Front(net, o), i, Index(net, o, "domain", r), at[r], task[r], runner[r])
  BY <1>1 DEF Together
<1> HIDE DEF i
<1>6. /\ i + 1 <= Front(net, o) /\ tr[i + 1].task = task[r]
      /\ Heading(setup, tr[i + 1], Index(net, o, "domain", r), at[r], task[r], runner[r])
  BY <1>5 DEF Stands
<1>7. tr[i + 1] \in Stations
  BY <1>2, <1>4, WalkTypes
<1>8. OnWay(r, o, tr, net, tr, i)
  BY <1>1, <1>3, <1>4, <1>6 DEF OnWay, i
<1> QED
  BY <1>6, <1>7, <1>8

(* Station e is where a rank with runner x has got to.                     *)
Reached(r, o, n, e, kind, x) ==
  /\ e.kind = kind /\ e.task = task'[r] /\ e.core = Shared(x)
  /\ e.dom = Index(n, o, "domain", r)

(* A rank that is on its way to the fence goes there.                      *)
LEMMA FenceGoes ==
  ASSUME Types, NEW r \in Ranks,
         NEW o, NEW tr, NEW n, NEW tr2, NEW i, OnWay(r, o, tr, n, tr2, i),
         NEW x, runner' = [runner EXCEPT ![r] = x],
         Reached(r, o, n, tr2[i + 1], "fence", x), Calls(r, n, "fence")
  PROVE  OnOneWalk' /\ at' = [at EXCEPT ![r] = "fence"]
<1> /\ setup' = setup /\ \A q \in Ranks \ {r} : task'[q] = task[q]
    /\ Together(setup, net, o, tr, at, task, runner)
    /\ Underway(net, n, setup, o, tr, tr2, r)
    /\ i \in Nat /\ i = Index(n, o, "world", r) /\ i + 1 <= Front(n, o)
  BY DEF OnWay
<1>1. runner'[r] = x /\ OnlyMoves(r)
  BY DEF OnlyMoves, Types
<1>2. "fence" \in WorldKinds /\ Nothing \in Payloads /\ Sent("fence", Nothing)
  BY Places0 DEF WorldKinds, Sent
<1>3. Goes(r, Entered(n, r, "fence", Nothing), "fence")
  BY DEF Calls
<1>4. OnOneWalk'
  BY <1>1, <1>2, <1>3, ToWorld DEF Reached
<1> QED
  BY <1>3, <1>4 DEF Goes

(* The forward pass of a prefill, a decode step and a forced token.        *)
LEMMA PrefillRuns ==
  ASSUME Types, OnOneWalk, NEW r \in Ranks, ForwardReturns(r), task[r].cmd = "prefill"
  PROVE  /\ OnOneWalk' /\ task[r].arg \in Prompts
         /\ runner' = [runner EXCEPT ![r] = Prefilled(runner[r], task[r].arg)]
         /\ Returned(r, [client EXCEPT !.phase = "decode"])
<1> DEFINE s == runner[r]
           p == task[r].arg
           x == Prefilled(s, p)
           c == [client EXCEPT !.phase = "decode"]
<1>1. /\ at[r] = "forward" /\ "forward" \in DomainKinds /\ task' = task /\ setup' = setup
      /\ runner' = [runner EXCEPT ![r] = x] /\ Return(r, net, c)
  BY DEF ForwardReturns, In, DomainKinds, Becomes, Prefilled
<1>2. PICK o, tr, i :
        /\ OnWay(r, o, tr, net, tr, i)
        /\ tr[i + 1] \in Stations /\ tr[i + 1].task = task[r]
        /\ Heading(setup, tr[i + 1], Index(net, o, "domain", r), at[r], task[r], runner[r])
  BY <1>1, InDomain
<1> DEFINE e == tr[i + 1]
<1>3. /\ p \in Prompts /\ e.kind = "command" /\ e.core = Shared(x)
      /\ "gather" \notin e.calls /\ Index(net, o, "domain", r) = Turn(e, "forward")
  BY <1>1, <1>2 DEF Heading
<1>4. e.dom = Index(net, o, "domain", r)
  BY <1>3 DEF Turn
<1> HIDE DEF x, c, p
<1>5. runner'[r] = x /\ OnlyMoves(r)
  BY <1>1 DEF OnlyMoves, Types
<1>6. /\ Together(setup, net, o, tr, at, task, runner)
      /\ Underway(net, net, setup, o, tr, tr, r)
      /\ i \in Nat /\ i = Index(net, o, "world", r) /\ i + 1 <= Front(net, o)
  BY <1>2 DEF OnWay
<1>7. e.task = task'[r] /\ e = tr[i + 1]
  BY <1>1, <1>2
<1> HIDE DEF e
<1>8. /\ OnOneWalk' /\ at' = [at EXCEPT ![r] = IF r = Root THEN "client" ELSE "command"]
      /\ client' = IF r = Root THEN c ELSE client
  BY <1>1, <1>3, <1>4, <1>5, <1>6, <1>7, ReturnGoes
<1>9. Returned(r, c)
  BY <1>8 DEF Returned
<1> QED
  BY <1>1, <1>3, <1>8, <1>9 DEF x, c, p

LEMMA DecodeRuns ==
  ASSUME Types, RootServes, OnOneWalk, Matching(setup), NEW r \in Ranks,
         ForwardReturns(r), task[r].cmd = "decode"
  PROVE  /\ OnOneWalk' /\ runner[r].ready = FALSE /\ Ran(runner[r]) \in Runners
         /\ Sampled(r, Ran(runner[r]))
<1> DEFINE s == runner[r]
           x == Ran(s)
<1>1. /\ at[r] = "forward" /\ "forward" \in DomainKinds /\ task' = task /\ setup' = setup
      /\ Sample(r, net, [s EXCEPT !.fed = Append(@, s.last)], DefersSync(s))
      /\ s \in Runners
  BY DEF ForwardReturns, In, DomainKinds, Types
<1>2. PICK o, tr, i :
        /\ OnWay(r, o, tr, net, tr, i)
        /\ tr[i + 1] \in Stations /\ tr[i + 1].task = task[r]
        /\ Heading(setup, tr[i + 1], Index(net, o, "domain", r), at[r], task[r], runner[r])
  BY <1>1, InDomain
<1> DEFINE e == tr[i + 1]
<1>3. /\ e.kind = "fence" /\ e.core = Shared(x) /\ s.ready = FALSE
      /\ "gather" \in e.calls <=> Coordinated(setup, s)
      /\ Index(net, o, "domain", r) = Turn(e, "forward")
  BY <1>1, <1>2 DEF Heading
<1>4. x = [s EXCEPT !.fed = Append(@, s.last)]
  BY <1>3 DEF Ran
<1>5. x \in Runners /\ x.sampling = s.sampling
  BY <1>1, SharedRan
<1>6. Sample(r, net, x, DefersSync(s))
  BY <1>1, <1>4
<1> HIDE DEF x
<1>7. r = Root => client.phase = "decode"
  BY <1>1 DEF RootServes
<1>8. /\ RequiresCoordinatedSampling(x) <=> Coordinated(setup, x)
      /\ r = Root /\ DefersSync(x) => RequiresCoordinatedSampling(x)
  BY <1>5, <1>7, DecideAlike
<1>9. DefersSync(x) <=> DefersSync(s)
  BY <1>5 DEF DefersSync
<1>10. Coordinated(setup, x) <=> Coordinated(setup, s)
  BY <1>5 DEF Coordinated
<1>11. e.dom = Index(net, o, "domain", r) + (IF Coordinated(setup, x) THEN 1 ELSE 0)
  <2>1. e.dom \in Int
    BY <1>2 DEF Stations
  <2> QED
    BY <1>3, <1>10, <2>1 DEF Turn
<1>12. Samples(r, o, net, e, x) /\ e = tr[i + 1]
  BY <1>1, <1>2, <1>3, <1>10, <1>11 DEF Samples
<1> HIDE DEF e
<1> DEFINE deferred == DefersSync(s)
<1>13. OnOneWalk' /\ Sampled(r, x)
  <2>1. Sample(r, net, x, deferred) /\ (r = Root /\ deferred => RequiresCoordinatedSampling(x))
    BY <1>6, <1>8, <1>9
  <2> HIDE DEF deferred
  <2> QED
    BY <1>2, <1>5, <1>8, <1>12, <2>1, SampleGoes
<1> QED
  BY <1>3, <1>5, <1>13 DEF x

LEMMA ForceRuns ==
  ASSUME Types, OnOneWalk, NEW r \in Ranks, ForwardReturns(r), task[r].cmd = "force"
  PROVE  /\ OnOneWalk' /\ runner[r].ready = FALSE /\ task[r].arg \in Tokens
         /\ Ran(runner[r]) \in Runners
         /\ runner' = [runner EXCEPT ![r] = Recorded(Ran(runner[r]), task[r].arg)]
         /\ at' = [at EXCEPT ![r] = "fence"] /\ client' = client
<1> DEFINE s == runner[r]
           t == task[r].arg
           x == Recorded(Ran(s), t)
<1>1. /\ at[r] = "forward" /\ "forward" \in DomainKinds /\ task' = task /\ setup' = setup
      /\ runner' = [runner EXCEPT ![r] = Recorded([s EXCEPT !.fed = Append(@, s.last)], t)]
      /\ Calls(r, net, "fence") /\ client' = client /\ s \in Runners
  BY DEF ForwardReturns, In, DomainKinds, Types, Becomes
<1>2. PICK o, tr, i :
        /\ OnWay(r, o, tr, net, tr, i)
        /\ tr[i + 1] \in Stations /\ tr[i + 1].task = task[r]
        /\ Heading(setup, tr[i + 1], Index(net, o, "domain", r), at[r], task[r], runner[r])
  BY <1>1, InDomain
<1> DEFINE e == tr[i + 1]
<1>3. /\ t \in Tokens /\ e.kind = "fence" /\ e.core = Shared(x) /\ s.ready = FALSE
      /\ "gather" \notin e.calls /\ Index(net, o, "domain", r) = Turn(e, "forward")
  BY <1>1, <1>2 DEF Heading
<1>4. Ran(s) = [s EXCEPT !.fed = Append(@, s.last)]
  BY <1>3 DEF Ran
<1>5. Ran(s) \in Runners /\ runner' = [runner EXCEPT ![r] = x]
  BY <1>1, <1>4, SharedRan
<1>6. Reached(r, o, net, tr[i + 1], "fence", x)
  BY <1>1, <1>2, <1>3 DEF Turn, Reached
<1> HIDE DEF x, e, t
<1>7. OnOneWalk' /\ at' = [at EXCEPT ![r] = "fence"]
  <2>1. Calls(r, net, "fence") /\ OnWay(r, o, tr, net, tr, i)
    BY <1>1, <1>2
  <2>2. runner' = [runner EXCEPT ![r] = x]
    BY <1>5
  <2> QED
    BY <1>6, <2>1, <2>2, FenceGoes
<1> QED
  BY <1>1, <1>3, <1>5, <1>7 DEF x, t

(* What the gather gives is a token.                                       *)
LEMMA GatherRuns ==
  ASSUME Types, OnOneWalk, NEW r \in Ranks, GatherReturns(r)
  PROVE  /\ OnOneWalk' /\ at' = [at EXCEPT ![r] = "fence"] /\ task[r].cmd = "decode"
         /\ \E x \in Runners :
              /\ runner' = [runner EXCEPT ![r] = x]
              /\ x.fed = runner[r].fed /\ x.ready = runner[r].ready
              /\ x.history = runner[r].history /\ x.sampling = runner[r].sampling
<1> DEFINE s == runner[r]
           t == Delivered(net, r, "gather").arg
           x == [s EXCEPT !.sample = t]
<1>1. /\ at[r] = "gather" /\ "gather" \in DomainKinds /\ task' = task /\ setup' = setup
      /\ runner' = [runner EXCEPT ![r] = x] /\ Calls(r, net, "fence") /\ s \in Runners
  BY DEF GatherReturns, In, DomainKinds, Types, Becomes
<1>2. PICK o, tr, i :
        /\ OnWay(r, o, tr, net, tr, i)
        /\ tr[i + 1] \in Stations /\ tr[i + 1].task = task[r]
        /\ Heading(setup, tr[i + 1], Index(net, o, "domain", r), at[r], task[r], runner[r])
  BY <1>1, InDomain
<1> DEFINE e == tr[i + 1]
<1>3. /\ "gather" \in e.calls /\ Index(net, o, "domain", r) = e.dom
      /\ task[r].cmd = "decode" /\ e.kind = "fence" /\ e.core = Shared(s)
  BY <1>1, <1>2 DEF Heading
<1>4. /\ Together(setup, net, o, tr, at, task, runner)
      /\ i \in Nat /\ i + 1 <= Front(net, o)
  BY <1>2 DEF OnWay
<1>5. Wired(net) /\ Walk(setup, net, o, tr) /\ DomainWalk(net, o, tr)
      /\ "domain" \in Comms /\ CommOf("gather") = "domain"
  BY <1>4 DEF Together, Walk, Comms, CommOf
<1> DEFINE a == net.made["domain"][r]
           w == o["domain"]
           l == Len(net.calls["domain"])
           j == Index(net, o, "domain", r)
<1>6. a \in Nat /\ w \in Nat /\ l \in Nat /\ a <= l /\ j = a + w
  BY <1>5, WalkTypes DEF Index
<1>7. a - 1 >= 0
  <2>1. Left(net, at, "domain", r) >= 0
    BY <1>4, <1>5 DEF Together
  <2> QED
    BY <1>1, <1>5, <2>1 DEF Left, Kinds
<1>8. j \in Kept(net, o, "domain") /\ j - w = a
  <2>1. j \in (w + 1)..(w + l) /\ j - w = a
    <3> HIDE DEF a, w, l, j
    <3> QED
      BY <1>6, <1>7
  <2> QED
    BY <2>1 DEF Kept
<1>9. Delivered(net, r, "gather") = CallAt(net, o, "domain", j).payload
  BY <1>5, <1>8 DEF Delivered, CallAt
<1> HIDE DEF j
<1>10. CallAt(net, o, "domain", j).kind = "gather"
  <2>1. j = Turn(tr[i + 1], "gather") /\ "gather" \in tr[i + 1].calls /\ i + 1 \in Nat
    BY <1>3, <1>4 DEF Turn, j
  <2> QED
    BY <1>4, <1>5, <1>8, <2>1 DEF DomainWalk
<1>11. t \in Tokens
  BY <1>5, <1>8, <1>9, <1>10 DEF DomainWalk
<1> HIDE DEF t
<1>12. /\ x \in Runners /\ x.fed = s.fed /\ x.ready = s.ready
       /\ x.history = s.history /\ x.sampling = s.sampling
  BY <1>1, <1>11 DEF Runners
<1>13. Shared(x) = Shared(s)
  BY <1>1, <1>11 DEF Shared, Runners
<1>14. Reached(r, o, net, tr[i + 1], "fence", x)
  BY <1>1, <1>2, <1>3, <1>13 DEF Reached
<1> HIDE DEF x, e
<1>15. OnOneWalk' /\ at' = [at EXCEPT ![r] = "fence"]
  BY <1>1, <1>2, <1>14, FenceGoes
<1> QED
  BY <1>1, <1>3, <1>12, <1>15

LEMMA ForwardReturnsKeeps ==
  ASSUME Inv, Matching(setup), NEW r \in Ranks, ForwardReturns(r)
  PROVE  Inv'
<1>1. /\ Types /\ RootServes /\ OnOneWalk /\ at[r] = "forward"
      /\ setup' = setup /\ task' = task /\ prompt' = prompt
      /\ task' \in [Ranks -> Payloads] /\ prompt' \in Prompts \cup {<<>>}
      /\ runner[r] \in Runners /\ Root \in Ranks /\ client \in Clients
  BY Parameters DEF Inv, ForwardReturns, In, Types
<1>2. task[r].cmd \in {"prefill", "decode", "force"}
  <2>1. "forward" \in DomainKinds
    BY DEF DomainKinds
  <2>2. PICK o, tr, i :
          Heading(setup, tr[i + 1], Index(net, o, "domain", r), at[r], task[r], runner[r])
    BY <1>1, <2>1, InDomain
  <2> QED
    BY <1>1, <2>2 DEF Heading
<1>3. {"client", "command", "gather", "fence"} \subseteq Places
  BY DEF Places, Kinds, Broadcasts
<1>4. CASE task[r].cmd = "prefill"
  <2> DEFINE x == Prefilled(runner[r], task[r].arg)
             c == [client EXCEPT !.phase = "decode"]
  <2>1. /\ OnOneWalk' /\ task[r].arg \in Prompts /\ runner' = [runner EXCEPT ![r] = x]
        /\ Returned(r, c)
    BY <1>1, <1>4, PrefillRuns
  <2>2. x \in Runners /\ x.sampling = runner[r].sampling
    BY <1>1, <2>1, SharedPrimed
  <2>3. /\ x.fed = runner[r].fed \o task[r].arg /\ x.ready = TRUE
        /\ x.history = runner[r].history
    BY <1>1 DEF Prefilled, Runners
  <2> HIDE DEF x
  <2>4. CASE r # Root
    <3>1. /\ at' = [at EXCEPT ![r] = "command"] /\ client' = client /\ r \in Workers
          /\ runner[r].sampling.penalties = FALSE
      BY <1>1, <2>1, <2>4 DEF Returned, Workers, Types
    <3>2. Types' /\ RootServes'
      BY <1>1, <1>3, <2>1, <2>2, <3>1, WorkerKeeps
    <3> QED
      BY <2>1, <3>2 DEF Inv
  <2>5. CASE r = Root
    <3>1. at' = [at EXCEPT ![Root] = "client"] /\ client' = c
      BY <2>1, <2>5 DEF Returned
    <3>2. /\ client' \in Clients /\ client'.phase = "decode"
          /\ client'.prompt = client.prompt /\ client'.sampling = client.sampling
      BY <1>1, <3>1, PhaseTypes DEF Phases
    <3>3. Types' /\ at'[Root] = "client" /\ runner'[Root] = x
      BY <1>1, <1>3, <2>1, <2>2, <2>5, <3>1, <3>2, RootTyped
    <3>4. /\ client.phase = "prefill" /\ task[Root].arg = prompt
          /\ runner[Root].fed = <<>> /\ runner[Root].history = <<>>
          /\ client.prompt = prompt /\ prompt \in Prompts
          /\ client.sampling \in setup.samplings /\ runner[Root].sampling = client.sampling
      BY <1>1, <1>4, <2>5 DEF RootServes
    <3>5. x.fed = prompt /\ prompt \o x.history = prompt
      BY <2>3, <2>5, <3>4, Parameters, ConcatEmptySeq
    <3>6. RootServes'
      BY <1>1, <2>2, <2>3, <2>5, <3>2, <3>3, <3>4, <3>5 DEF RootServes, Caught
    <3> QED
      BY <2>1, <3>3, <3>6 DEF Inv
  <2> QED
    BY <2>4, <2>5
<1>5. CASE task[r].cmd = "decode"
  <2> DEFINE s == Ran(runner[r])
  <2>1. OnOneWalk' /\ runner[r].ready = FALSE /\ s \in Runners /\ Sampled(r, s)
    BY <1>1, <1>5, DecodeRuns
  <2>2. /\ s.fed = Append(runner[r].fed, runner[r].last) /\ s.ready = FALSE
        /\ s.history = runner[r].history /\ s.sampling = runner[r].sampling
    BY <1>1, <2>1 DEF Ran, Runners
  <2> HIDE DEF s
  <2>3. client' = client
    BY <2>1 DEF Sampled
  <2>4. PICK k \in {"gather", "fence"}, x \in Runners :
          /\ at' = [at EXCEPT ![r] = k] /\ runner' = [runner EXCEPT ![r] = x]
          /\ x.fed = s.fed /\ x.ready = s.ready /\ x.history = s.history
          /\ x.sampling = s.sampling
    BY <2>1 DEF Sampled
  <2>5. CASE r # Root
    <3>1. r \in Workers /\ x.sampling.penalties = FALSE
      BY <1>1, <2>2, <2>4, <2>5 DEF Workers, Types
    <3>2. Types' /\ RootServes'
      BY <1>1, <1>3, <2>3, <2>4, <3>1, WorkerKeeps
    <3> QED
      BY <2>1, <3>2 DEF Inv
  <2>6. CASE r = Root
    <3>1. Types' /\ at'[Root] = k /\ runner'[Root] = x
      BY <1>1, <1>3, <2>3, <2>4, <2>6, RootTyped
    <3>2. /\ client.phase = "decode" /\ Behind(runner[Root])
          /\ client.prompt = prompt /\ prompt \in Prompts
          /\ client.sampling \in setup.samplings /\ runner[Root].sampling = client.sampling
      BY <1>1, <1>5, <2>6 DEF RootServes
    <3>3. prompt \o x.history = x.fed /\ x.ready = FALSE /\ x.sampling = client.sampling
      BY <2>2, <2>4, <2>6, <3>2 DEF Behind
    <3>4. task'[Root].cmd = "decode"
      BY <1>1, <1>5, <2>6
    <3>5. RootServes'
      BY <1>1, <2>3, <3>1, <3>2, <3>3, <3>4 DEF RootServes, Caught
    <3> QED
      BY <2>1, <3>1, <3>5 DEF Inv
  <2> QED
    BY <2>5, <2>6
<1>6. CASE task[r].cmd = "force"
  <2> DEFINE t == task[r].arg
             s == Ran(runner[r])
             x == Recorded(s, t)
  <2>1. /\ OnOneWalk' /\ runner[r].ready = FALSE /\ t \in Tokens /\ s \in Runners
        /\ runner' = [runner EXCEPT ![r] = x]
        /\ at' = [at EXCEPT ![r] = "fence"] /\ client' = client
    BY <1>1, <1>6, ForceRuns
  <2>2. /\ s.fed = Append(runner[r].fed, runner[r].last) /\ s.ready = FALSE
        /\ s.history = runner[r].history /\ s.sampling = runner[r].sampling
    BY <1>1, <2>1 DEF Ran, Runners
  <2> HIDE DEF s, t
  <2>3. /\ x \in Runners /\ x.history = Append(s.history, t) /\ x.last = t /\ x.fed = s.fed
        /\ x.ready = FALSE /\ x.sampling = s.sampling
    BY <2>1, <2>2, SharedRecorded
  <2> HIDE DEF x
  <2>4. CASE r # Root
    <3>1. r \in Workers /\ x.sampling.penalties = FALSE
      BY <1>1, <2>2, <2>3, <2>4 DEF Workers, Types
    <3>2. Types' /\ RootServes'
      BY <1>1, <1>3, <2>1, <2>3, <3>1, WorkerKeeps
    <3> QED
      BY <2>1, <3>2 DEF Inv
  <2>5. CASE r = Root
    <3>1. Types' /\ at'[Root] = "fence" /\ runner'[Root] = x
      BY <1>1, <1>3, <2>1, <2>3, <2>5, RootTyped
    <3>2. /\ client.phase = "decode" /\ Behind(runner[Root])
          /\ client.prompt = prompt /\ prompt \in Prompts
          /\ client.sampling \in setup.samplings /\ runner[Root].sampling = client.sampling
      BY <1>1, <1>6, <2>5 DEF RootServes
    <3>3. prompt \o x.history = Append(x.fed, x.last)
      <4>1. prompt \o s.history = s.fed
        BY <2>2, <2>5, <3>2 DEF Behind
      <4>2. prompt \o Append(s.history, t) = Append(prompt \o s.history, t)
        BY <2>1, <3>2, SharedFields, Told
      <4> QED
        BY <2>3, <4>1, <4>2
    <3>4. task'[Root].cmd = "force"
      BY <1>1, <1>6, <2>5
    <3>5. RootServes'
      BY <1>1, <2>1, <2>2, <2>3, <2>5, <3>1, <3>2, <3>3, <3>4 DEF RootServes, Behind
    <3> QED
      BY <2>1, <3>1, <3>5 DEF Inv
  <2> QED
    BY <2>4, <2>5
<1> QED
  BY <1>2, <1>4, <1>5, <1>6

LEMMA GatherReturnsKeeps ==
  ASSUME Inv, NEW r \in Ranks, GatherReturns(r)
  PROVE  Inv'
<1>1. /\ Types /\ RootServes /\ OnOneWalk /\ at[r] = "gather"
      /\ setup' = setup /\ task' = task /\ prompt' = prompt /\ client' = client
      /\ task' \in [Ranks -> Payloads] /\ prompt' \in Prompts \cup {<<>>}
      /\ runner[r] \in Runners /\ Root \in Ranks /\ client \in Clients
  BY Parameters DEF Inv, GatherReturns, In, Types
<1>2. /\ OnOneWalk' /\ at' = [at EXCEPT ![r] = "fence"] /\ task[r].cmd = "decode"
      /\ \E x \in Runners :
           /\ runner' = [runner EXCEPT ![r] = x]
           /\ x.fed = runner[r].fed /\ x.ready = runner[r].ready
           /\ x.history = runner[r].history /\ x.sampling = runner[r].sampling
  BY <1>1, GatherRuns
<1>3. PICK x \in Runners :
        /\ runner' = [runner EXCEPT ![r] = x]
        /\ x.fed = runner[r].fed /\ x.ready = runner[r].ready
        /\ x.history = runner[r].history /\ x.sampling = runner[r].sampling
  BY <1>2
<1>4. "fence" \in Places
  BY DEF Places, Kinds
<1>5. CASE r # Root
  <2>1. r \in Workers /\ x.sampling.penalties = FALSE
    BY <1>1, <1>3, <1>5 DEF Workers, Types
  <2>2. Types' /\ RootServes'
    BY <1>1, <1>2, <1>3, <1>4, <2>1, WorkerKeeps
  <2> QED
    BY <1>2, <2>2 DEF Inv
<1>6. CASE r = Root
  <2>1. Types' /\ at'[Root] = "fence" /\ runner'[Root] = x
    BY <1>1, <1>2, <1>3, <1>4, <1>6, RootTyped
  <2>2. /\ client.phase = "decode" /\ runner[Root].ready = FALSE /\ Caught(runner[Root])
        /\ client.prompt = prompt /\ prompt \in Prompts
        /\ client.sampling \in setup.samplings /\ runner[Root].sampling = client.sampling
    BY <1>1, <1>6 DEF RootServes
  <2>3. RootServes'
    <3>1. x.ready = FALSE /\ prompt \o x.history = x.fed /\ x.sampling = runner[Root].sampling
      BY <1>3, <1>6, <2>2 DEF Caught
    <3>2. task'[Root].cmd = "decode"
      BY <1>1, <1>2, <1>6
    <3> QED
      BY <1>1, <2>1, <2>2, <3>1, <3>2 DEF RootServes, Caught
  <2> QED
    BY <1>2, <2>1, <2>3 DEF Inv
<1> QED
  BY <1>5, <1>6

(* The command is over, from the station it has got to.                    *)
LEMMA EndGoes ==
  ASSUME Types, NEW r \in Ranks,
         NEW o, NEW tr, NEW n, NEW tr2, NEW i, OnWay(r, o, tr, n, tr2, i),
         NEW x, runner' = [runner EXCEPT ![r] = x],
         Reached(r, o, n, tr2[i + 1], "command", x), NEW c, Return(r, n, c)
  PROVE  OnOneWalk' /\ Returned(r, c)
<1> /\ setup' = setup /\ \A q \in Ranks \ {r} : task'[q] = task[q]
    /\ Together(setup, net, o, tr, at, task, runner)
    /\ Underway(net, n, setup, o, tr, tr2, r)
    /\ i \in Nat /\ i = Index(n, o, "world", r) /\ i + 1 <= Front(n, o)
  BY DEF OnWay
<1> DEFINE e == tr2[i + 1]
<1>1. runner'[r] = x /\ OnlyMoves(r)
  BY DEF OnlyMoves, Types
<1>2. /\ e.kind = "command" /\ e.task = task'[r] /\ e.core = Shared(runner'[r])
      /\ e.dom = Index(n, o, "domain", r) /\ e = tr2[i + 1]
  BY <1>1 DEF Reached
<1> HIDE DEF e
<1>3. /\ OnOneWalk'
      /\ at' = [at EXCEPT ![r] = IF r = Root THEN "client" ELSE "command"]
      /\ client' = IF r = Root THEN c ELSE client
  BY <1>1, <1>2, ReturnGoes
<1> QED
  BY <1>3 DEF Returned

(* A rank leaves a call on world for the next station.                     *)
LEMMA InWorld ==
  ASSUME Types, OnOneWalk, NEW r \in Ranks, NEW k \in WorldKinds, In(r, k),
         setup' = setup, task' = task
  PROVE  \E o, tr, i :
           /\ OnWay(r, o, tr, net, tr, i)
           /\ Reached(r, o, net, tr[i], k, runner[r]) /\ tr[i] \in Stations
           /\ Sent(k, Delivered(net, r, k))
           /\ tr[i + 1] = Onward(setup, tr[i], Delivered(net, r, k))
<1>1. PICK o, tr : Together(setup, net, o, tr, at, task, runner)
  BY DEF OnOneWalk
<1>2. Wired(net) /\ Walk(setup, net, o, tr)
  BY <1>1 DEF Together
<1>3. Underway(net, net, setup, o, tr, tr, r)
  BY <1>2, SetsOut
<1> DEFINE i == Index(net, o, "world", r)
           p == Delivered(net, r, k)
<1>4. at[r] = k /\ MayReturn(net, r, k)
  BY DEF In
<1>5. /\ i \in Nat /\ i + 1 <= Front(net, o) /\ tr[i] \in Stations
      /\ tr[i].kind = k /\ tr[i].task = task[r] /\ tr[i].core = Shared(runner[r])
      /\ tr[i].dom = Index(net, o, "domain", r)
      /\ Sent(k, p) /\ tr[i + 1] = Onward(setup, tr[i], p)
  BY <1>1, <1>4, Hears
<1> HIDE DEF p
<1>6. OnWay(r, o, tr, net, tr, i)
  BY <1>1, <1>3, <1>5 DEF OnWay
<1> HIDE DEF i
<1>7. Reached(r, o, net, tr[i], k, runner[r])
  BY <1>5 DEF Reached
<1> QED
  BY <1>5, <1>6, <1>7 DEF p

(* The fence of a forced token.                                            *)
LEMMA ForceEnds ==
  ASSUME Types, OnOneWalk, NEW r \in Ranks, FenceReturns(r), task[r].cmd = "force"
  PROVE  /\ OnOneWalk' /\ Returned(r, Received(client, task[r].arg)) /\ runner' = runner
<1> DEFINE c == Received(client, task[r].arg)
           x == runner[r]
<1>1. /\ In(r, "fence") /\ "fence" \in WorldKinds /\ setup' = setup /\ task' = task
      /\ Return(r, net, c) /\ runner' = runner
  BY DEF FenceReturns, WorldKinds
<1>2. PICK o, tr, i :
        /\ OnWay(r, o, tr, net, tr, i)
        /\ Reached(r, o, net, tr[i], "fence", runner[r]) /\ tr[i] \in Stations
        /\ tr[i + 1] = Onward(setup, tr[i], Delivered(net, r, "fence"))
  BY <1>1, InWorld
<1> DEFINE e == tr[i]
<1>3. tr[i + 1] = Then(e, "command", e.task, e.core, {}) /\ e.dom \in Int
  <2>1. e.kind = "fence" /\ e.task.cmd = "force"
    BY <1>1, <1>2 DEF Reached
  <2> QED
    BY <1>2, <2>1 DEF Onward, Stations
<1>4. Reached(r, o, net, tr[i + 1], "command", x)
  BY <1>2, <1>3 DEF Reached, Then, Number
<1>5. runner' = [runner EXCEPT ![r] = x]
  BY <1>1 DEF Types
<1> HIDE DEF c, x, e
<1>6. OnOneWalk' /\ Returned(r, c)
  BY <1>1, <1>2, <1>4, <1>5, EndGoes
<1> QED
  BY <1>1, <1>6 DEF c

(* The fence of a decode step, on a worker: it waits for the token.        *)
LEMMA TokenAwaited ==
  ASSUME Types, OnOneWalk, NEW r \in Workers, FenceReturns(r), task[r].cmd = "decode"
  PROVE  OnOneWalk' /\ at' = [at EXCEPT ![r] = "token"] /\ runner' = runner /\ client' = client
<1>1. /\ r \in Ranks /\ r # Root
      /\ In(r, "fence") /\ "fence" \in WorldKinds /\ setup' = setup /\ task' = task
      /\ Calls(r, net, "token") /\ runner' = runner /\ client' = client
  BY DEF FenceReturns, WorldKinds, Workers
<1>2. PICK o, tr, i :
        /\ OnWay(r, o, tr, net, tr, i)
        /\ Reached(r, o, net, tr[i], "fence", runner[r]) /\ tr[i] \in Stations
        /\ tr[i + 1] = Onward(setup, tr[i], Delivered(net, r, "fence"))
  BY <1>1, InWorld
<1> DEFINE e == tr[i]
<1>3. tr[i + 1] = Then(e, "token", e.task, e.core, {}) /\ e.dom \in Int
  <2>1. e.kind = "fence" /\ e.task.cmd = "decode"
    BY <1>1, <1>2 DEF Reached
  <2> QED
    BY <1>2, <2>1 DEF Onward, Stations
<1>4. Reached(r, o, net, tr[i + 1], "token", runner[r])
  BY <1>2, <1>3 DEF Reached, Then, Number
<1> HIDE DEF e
<1>5. /\ Together(setup, net, o, tr, at, task, runner) /\ OnlyMoves(r)
      /\ Underway(net, net, setup, o, tr, tr, r)
      /\ i \in Nat /\ i = Index(net, o, "world", r) /\ i + 1 <= Front(net, o)
  BY <1>1, <1>2 DEF OnWay, OnlyMoves
<1>6. /\ tr[i + 1].kind = "token" /\ tr[i + 1].task = task'[r]
      /\ tr[i + 1].core = Shared(runner'[r])
      /\ tr[i + 1].dom = Index(net, o, "domain", r)
  BY <1>1, <1>4 DEF Reached
<1>7. "token" \in WorldKinds /\ Nothing \in Payloads
      /\ Goes(r, Entered(net, r, "token", Nothing), "token")
  BY <1>1, Places0 DEF WorldKinds, Calls
<1>8. OnOneWalk'
  BY <1>1, <1>5, <1>6, <1>7, ToWorld
<1> QED
  BY <1>1, <1>7, <1>8 DEF Goes

(* The fence of a decode step, on rank 0: its token is everybody's.        *)
LEMMA TokenTold ==
  ASSUME Types, OnOneWalk, FenceReturns(Root), task[Root].cmd = "decode"
  PROVE  /\ OnOneWalk' /\ runner[Root].sample \in Tokens
         /\ runner' = [runner EXCEPT ![Root] = Recorded(runner[Root], runner[Root].sample)]
         /\ Returned(Root, Received(client, runner[Root].sample))
<1> DEFINE s == runner[Root]
           t == s.sample
           x == Recorded(s, t)
           c == Received(client, t)
           p == [cmd |-> "token", arg |-> t]
           n == Entered(net, Root, "token", p)
<1>1. /\ Root \in Ranks /\ s \in Runners
      /\ In(Root, "fence") /\ "fence" \in WorldKinds /\ setup' = setup /\ task' = task
      /\ Return(Root, n, c) /\ runner' = [runner EXCEPT ![Root] = x]
  BY Parameters DEF FenceReturns, WorldKinds, Types, Becomes
<1>2. t \in Tokens
  BY <1>1, SharedFields
<1>3. PICK o, tr, i :
        /\ OnWay(Root, o, tr, net, tr, i)
        /\ Reached(Root, o, net, tr[i], "fence", s) /\ tr[i] \in Stations
        /\ tr[i + 1] = Onward(setup, tr[i], Delivered(net, Root, "fence"))
  BY <1>1, InWorld
<1> DEFINE e == tr[i]
           e1 == tr[i + 1]
<1>4. e1 = Then(e, "token", e.task, e.core, {}) /\ e.dom \in Int
  <2>1. e.kind = "fence" /\ e.task.cmd = "decode"
    BY <1>1, <1>3 DEF Reached
  <2> QED
    BY <1>3, <2>1 DEF Onward, Stations
<1>5. /\ e1.kind = "token" /\ e1.task = task[Root] /\ e1.core = Shared(s)
      /\ e1.dom = Index(net, o, "domain", Root) /\ e1.dom \in Int
  BY <1>1, <1>3, <1>4 DEF Reached, Then, Number
<1>6. p \in Payloads /\ p.arg = t /\ Sent("token", p) /\ "token" \in WorldKinds
  <2>1. p \in Payloads
    BY <1>2, Places0
  <2> QED
    BY <1>2, <2>1 DEF Sent, WorldKinds
<1>7. /\ Together(setup, net, o, tr, at, task, runner)
      /\ Underway(net, net, setup, o, tr, tr, Root)
      /\ i \in Nat /\ i = Index(net, o, "world", Root) /\ i + 1 = Front(net, o)
      /\ Front(net, o) \in Int
  BY <1>3 DEF OnWay, Front
<1> DEFINE f == Front(net, o)
           next == Onward(setup, tr[f], p)
           tr2 == [tr EXCEPT ![f + 1] = next]
<1> HIDE DEF p
<1>8. /\ Underway(net, n, setup, o, tr, tr2, Root)
      /\ Front(n, o) = f + 1 /\ Index(n, o, "world", Root) = f
      /\ Index(n, o, "domain", Root) = Index(net, o, "domain", Root)
      /\ tr2[f + 1] = next
  BY <1>5, <1>6, <1>7, RootCalls
<1>9. next = Then(e1, "command", e1.task, Recorded(e1.core, t), {})
  BY <1>5, <1>6, <1>7 DEF Onward
<1>10. Shared(x) = Recorded(Shared(s), t)
  BY <1>1, <1>2, SharedRecorded
<1> HIDE DEF e, e1, n, tr2, next
<1>11. OnWay(Root, o, tr, n, tr2, f)
  BY <1>1, <1>3, <1>7, <1>8 DEF OnWay
<1>12. Reached(Root, o, n, tr2[f + 1], "command", x)
  BY <1>1, <1>5, <1>8, <1>9, <1>10 DEF Reached, Then, Number
<1> HIDE DEF x, c, f
<1>13. OnOneWalk' /\ Returned(Root, c)
  BY <1>1, <1>11, <1>12, EndGoes
<1> QED
  BY <1>1, <1>2, <1>13 DEF x, c

LEMMA FenceReturnsKeeps ==
  ASSUME Inv, NEW r \in Ranks, FenceReturns(r)
  PROVE  Inv'
<1>1. /\ Types /\ RootServes /\ OnOneWalk /\ at[r] = "fence"
      /\ setup' = setup /\ task' = task /\ prompt' = prompt
      /\ task' \in [Ranks -> Payloads] /\ prompt' \in Prompts \cup {<<>>}
      /\ runner[r] \in Runners /\ Root \in Ranks /\ client \in Clients
      /\ runner = [runner EXCEPT ![r] = runner[r]]
  BY Parameters DEF Inv, FenceReturns, In, Types
<1>2. task[r].cmd \in {"decode", "force"}
  <2>1. In(r, "fence") /\ "fence" \in WorldKinds
    BY DEF FenceReturns, WorldKinds
  <2>2. PICK o, tr, i :
          /\ OnWay(r, o, tr, net, tr, i)
          /\ Reached(r, o, net, tr[i], "fence", runner[r]) /\ tr[i] \in Stations
          /\ tr[i + 1] = Onward(setup, tr[i], Delivered(net, r, "fence"))
    BY <1>1, <2>1, InWorld
  <2> QED
    BY <1>1, <2>2 DEF Reached, Stations
<1>3. {"client", "command", "token"} \subseteq Places
  BY DEF Places, Kinds, Broadcasts
<1>4. CASE r # Root
  <2>1. r \in Workers /\ runner[r].sampling.penalties = FALSE
    BY <1>1, <1>4 DEF Workers, Types
  <2>2. /\ OnOneWalk' /\ runner' = runner /\ client' = client
        /\ \E k \in {"command", "token"} : at' = [at EXCEPT ![r] = k]
    <3>1. CASE task[r].cmd = "force"
      <4>1. OnOneWalk' /\ Returned(r, Received(client, task[r].arg)) /\ runner' = runner
        BY <1>1, <3>1, ForceEnds
      <4> QED
        BY <1>4, <4>1 DEF Returned
    <3>2. CASE task[r].cmd = "decode"
      BY <1>1, <2>1, <3>2, TokenAwaited
    <3> QED
      BY <1>2, <3>1, <3>2
  <2>3. PICK k \in {"command", "token"} : at' = [at EXCEPT ![r] = k]
    BY <2>2
  <2>4. Types' /\ RootServes'
    BY <1>1, <1>3, <2>1, <2>2, <2>3, WorkerKeeps
  <2> QED
    BY <2>2, <2>4 DEF Inv
<1>5. CASE r = Root
  <2>0. /\ client.phase = "decode" /\ client.prompt = prompt /\ prompt \in Prompts
        /\ client.sampling \in setup.samplings /\ runner[Root].sampling = client.sampling
        /\ IF task[Root].cmd = "force" THEN Behind(runner[Root])
           ELSE runner[Root].ready = FALSE /\ Caught(runner[Root])
    BY <1>1, <1>5 DEF RootServes
  <2>1. \E x \in Runners : \E t :
          /\ OnOneWalk' /\ runner' = [runner EXCEPT ![Root] = x]
          /\ at' = [at EXCEPT ![Root] = "client"] /\ client' = Received(client, t)
          /\ x.sampling = runner[Root].sampling
          /\ x.ready = FALSE /\ prompt \o x.history = Append(x.fed, x.last)
    <3>1. CASE task[Root].cmd = "force"
      <4>1. OnOneWalk' /\ Returned(Root, Received(client, task[Root].arg)) /\ runner' = runner
        BY <1>1, <1>5, <3>1, ForceEnds
      <4>2. runner[Root].ready = FALSE
            /\ prompt \o runner[Root].history = Append(runner[Root].fed, runner[Root].last)
        BY <2>0, <3>1 DEF Behind
      <4> QED
        BY <1>1, <1>5, <4>1, <4>2 DEF Returned
    <3>2. CASE task[Root].cmd = "decode"
      <4> DEFINE s == runner[Root]
                 t == s.sample
                 x == Recorded(s, t)
      <4>1. /\ OnOneWalk' /\ t \in Tokens /\ runner' = [runner EXCEPT ![Root] = x]
            /\ Returned(Root, Received(client, t))
        BY <1>1, <1>5, <3>2, TokenTold
      <4>2. s \in Runners /\ s.ready = FALSE /\ prompt \o s.history = s.fed
            /\ s.history \in Seq(Tokens)
        BY <1>1, <1>5, <2>0, <3>2, SharedFields DEF Caught
      <4> HIDE DEF s, t
      <4>3. /\ x \in Runners /\ x.history = Append(s.history, t) /\ x.last = t
            /\ x.fed = s.fed /\ x.ready = s.ready /\ x.sampling = s.sampling
        BY <4>1, <4>2, SharedRecorded
      <4>4. prompt \o Append(s.history, t) = Append(prompt \o s.history, t)
        BY <2>0, <4>1, <4>2, Told
      <4> HIDE DEF x
      <4>5. at' = [at EXCEPT ![Root] = "client"] /\ client' = Received(client, t)
        BY <4>1 DEF Returned
      <4>6. x.ready = FALSE /\ prompt \o x.history = Append(x.fed, x.last)
        BY <4>2, <4>3, <4>4
      <4> QED
        BY <4>1, <4>3, <4>5, <4>6 DEF s
    <3> QED
      BY <1>2, <1>5, <3>1, <3>2
  <2>2. PICK x \in Runners : \E t :
          /\ OnOneWalk' /\ runner' = [runner EXCEPT ![Root] = x]
          /\ at' = [at EXCEPT ![Root] = "client"] /\ client' = Received(client, t)
          /\ x.sampling = runner[Root].sampling
          /\ x.ready = FALSE /\ prompt \o x.history = Append(x.fed, x.last)
    BY <2>1
  <2>3. /\ client' \in Clients /\ client'.phase \in {"decode", "ending"}
        /\ client'.prompt = client.prompt /\ client'.sampling = client.sampling
    BY <1>1, <2>0, <2>2, ReceivedTypes
  <2>4. Types' /\ at'[Root] = "client" /\ runner'[Root] = x
    BY <1>1, <1>3, <2>2, <2>3, RootTyped
  <2>5. RootServes'
    BY <1>1, <2>0, <2>2, <2>3, <2>4 DEF RootServes, Behind
  <2> QED
    BY <2>2, <2>4, <2>5 DEF Inv
<1> QED
  BY <1>4, <1>5

LEMMA TokenReturnsKeeps ==
  ASSUME Inv, NEW r \in Ranks, TokenReturns(r)
  PROVE  Inv'
<1> DEFINE s == runner[r]
           p == Delivered(net, r, "token")
           t == p.arg
           x == Recorded(s, t)
<1>1. /\ Types /\ RootServes /\ OnOneWalk /\ In(r, "token") /\ at[r] = "token"
      /\ setup' = setup /\ task' = task /\ prompt' = prompt
      /\ task' \in [Ranks -> Payloads] /\ s \in Runners
      /\ runner' = [runner EXCEPT ![r] = x] /\ Return(r, net, client)
  BY DEF Inv, TokenReturns, In, Types, Becomes
<1>2. r # Root /\ r \in Workers /\ "token" \in WorldKinds /\ s.sampling.penalties = FALSE
  BY <1>1 DEF Types, Workers, WorldKinds
<1> HIDE DEF p
<1>3. PICK o, tr, i :
        /\ OnWay(r, o, tr, net, tr, i)
        /\ Reached(r, o, net, tr[i], "token", s) /\ tr[i] \in Stations
        /\ Sent("token", p) /\ tr[i + 1] = Onward(setup, tr[i], p)
  BY <1>1, <1>2, InWorld DEF p
<1>4. t \in Tokens
  BY <1>3 DEF Sent
<1> DEFINE e == tr[i]
<1>5. /\ tr[i + 1] = Then(e, "command", e.task, Recorded(e.core, t), {}) /\ e.dom \in Int
      /\ e.task = task'[r] /\ e.core = Shared(s) /\ e.dom = Index(net, o, "domain", r)
  BY <1>3 DEF Onward, Stations, Reached
<1>6. x \in Runners /\ Shared(x) = Recorded(Shared(s), t) /\ x.sampling = s.sampling
  BY <1>1, <1>4, SharedRecorded
<1> HIDE DEF x, e, t, s
<1>7. Reached(r, o, net, tr[i + 1], "command", x)
  BY <1>5, <1>6 DEF Reached, Then, Number
<1>8. OnOneWalk' /\ Returned(r, client)
  BY <1>1, <1>3, <1>7, EndGoes
<1>9. at' = [at EXCEPT ![r] = "command"] /\ client' = client /\ "command" \in Places
  BY <1>2, <1>8 DEF Returned, Places, Kinds, Broadcasts
<1>10. x.sampling.penalties = FALSE /\ task'[Root] = task[Root]
  BY <1>1, <1>2, <1>6
<1>11. Types' /\ RootServes'
  BY <1>1, <1>2, <1>6, <1>9, <1>10, WorkerKeeps
<1> QED
  BY <1>8, <1>11 DEF Inv

-----------------------------------------------------------------------------
(* The first station: every worker waits for the first command. *)
First == [kind |-> "command", task |-> Idle, core |-> Shared(FreshRunner), calls |-> {}, dom |-> 0]

LEMMA FreshTypes ==
  /\ Idle \in Payloads /\ Nothing \in Payloads /\ FreshRunner \in Runners
  /\ FreshRunner.sampling.penalties = FALSE /\ First \in Stations
<1>1. Idle \in Payloads /\ Nothing \in Payloads
  BY DEF Idle, Nothing, Payloads, Cmds, Commands, Args
<1>2. ZeroToken \in Tokens /\ Greedy \in Samplings /\ <<>> \in Seq(Tokens)
  BY Parameters, EmptySeq DEF Greedy, Samplings
<1>3. FreshRunner \in Runners /\ FreshRunner.sampling.penalties = FALSE
  BY <1>2 DEF FreshRunner, Runners, Greedy
<1>4. Shared(FreshRunner) \in Runners
  BY <1>3, SharedFields
<1> DEFINE u == Shared(FreshRunner)
<1> HIDE DEF u
<1>5. [kind |-> "command", task |-> Idle, core |-> u, calls |-> {}, dom |-> 0] \in Stations
  BY <1>1, <1>4 DEF Stations, WorldKinds, u
<1> QED
  BY <1>1, <1>3, <1>5 DEF First, u

LEMMA InitTogether ==
  ASSUME Init
  PROVE  Together(setup, net, [c \in Comms |-> 0], [i \in Nat |-> First], at, task, runner)
<1> DEFINE o == [c \in Comms |-> 0]
           tr == [i \in Nat |-> First]
           call == [kind |-> "command", payload |-> Nothing]
<1>1. /\ net = [QuietNet EXCEPT !.calls["world"] = <<call>>,
                  !.made["world"] = [r \in Ranks |-> IF r = Root THEN 0 ELSE 1]]
      /\ at = [r \in Ranks |-> IF r = Root THEN "client" ELSE "command"]
      /\ task = [r \in Ranks |-> Idle] /\ runner = [r \in Ranks |-> FreshRunner]
  BY DEF Init
<1>2. call \in NetCalls
  BY FreshTypes DEF NetCalls, Kinds, Broadcasts
<1>3. /\ net.calls = [c \in Comms |-> IF c = "world" THEN <<call>> ELSE <<>>]
      /\ net.made = [c \in Comms |-> [r \in Ranks |->
                       IF c = "world" /\ r # Root THEN 1 ELSE 0]]
      /\ net.crossed = FALSE
      /\ net = [calls |-> net.calls, made |-> net.made, crossed |-> net.crossed]
  BY <1>1 DEF QuietNet, Comms
<1>4. /\ "world" \in Comms /\ "domain" \in Comms /\ "world" # "domain"
      /\ Comms = {"world", "domain"} /\ Root \in Ranks
  BY Parameters DEF Comms
<1> HIDE DEF call
<1>5. <<call>> \in Seq(NetCalls) /\ Len(<<call>>) = 1 /\ <<call>>[1] = call
      /\ <<>> \in Seq(NetCalls) /\ Len(<<>>) = 0
  BY <1>2, EmptySeq
<1>6. Wired(net)
  <2>1. net.calls \in [Comms -> Seq(NetCalls)] /\ net.made \in [Comms -> [Ranks -> Nat]]
    BY <1>3, <1>5
  <2>2. ASSUME NEW c \in Comms, NEW r \in Ranks
        PROVE  net.made[c][r] <= Len(net.calls[c])
    <3>1. net.made[c][r] = IF c = "world" /\ r # Root THEN 1 ELSE 0
      BY <1>3
    <3>2. net.calls[c] = IF c = "world" THEN <<call>> ELSE <<>>
      BY <1>3
    <3> QED
      BY <1>5, <3>1, <3>2
  <2> QED
    BY <1>3, <2>1, <2>2 DEF Wired
<1>7. /\ o \in [Comms -> Nat] /\ o["world"] = 0 /\ o["domain"] = 0
      /\ tr \in [Nat -> Stations] /\ \A i \in Nat : tr[i] = First
  BY <1>4, FreshTypes
<1> HIDE DEF o, tr
<1>8. /\ Front(net, o) = 1 /\ Index(net, o, "world", Root) = 0
      /\ \A r \in Ranks \ {Root} : Index(net, o, "world", r) = 1
      /\ \A r \in Ranks : Index(net, o, "domain", r) = 0
  BY <1>3, <1>4, <1>7 DEF Front, Index
<1>9. /\ First.kind = "command" /\ First.task = Idle /\ First.core = Shared(FreshRunner)
      /\ First.calls = {} /\ First.dom = 0 /\ Number({}) = 0
  BY DEF First, Number
<1>10. Walk(setup, net, o, tr)
  <2>1. WorldWalk(setup, net, o, tr)
    <3> SUFFICES ASSUME NEW j \in Kept(net, o, "world")
                 PROVE  j = 1 /\ CallAt(net, o, "world", j).kind = tr[j].kind
      BY <1>8 DEF WorldWalk
    <3>1. j = 1
      BY <1>3, <1>4, <1>5, <1>7 DEF Kept
    <3>2. CallAt(net, o, "world", j) = call
      BY <1>3, <1>4, <1>5, <1>7, <3>1 DEF CallAt
    <3> QED
      BY <1>7, <1>9, <3>1, <3>2 DEF call
  <2>2. InTurn(tr, Front(net, o))
    BY <1>7, <1>9 DEF InTurn
  <2>3. Kept(net, o, "domain") = {}
    BY <1>3, <1>4, <1>5, <1>7 DEF Kept
  <2>4. DomainWalk(net, o, tr)
    BY <2>3 DEF DomainWalk
  <2> QED
    BY <1>7, <2>1, <2>2, <2>4 DEF Walk
<1>11. ASSUME NEW c \in Comms, NEW r \in Ranks
       PROVE  Left(net, at, c, r) >= 0
  <2>1. CASE r = Root
    BY <1>1, <1>3, <2>1, Places0 DEF Left
  <2>2. CASE r # Root
    <3>1. at[r] = "command" /\ CommOf(at[r]) = "world"
      BY <1>1, <2>2 DEF CommOf
    <3>2. net.made[c][r] = IF c = "world" THEN 1 ELSE 0
      BY <1>3, <2>2
    <3>3. Left(net, at, c, r) = IF at[r] \in Kinds /\ CommOf(at[r]) = c
                                THEN net.made[c][r] - 1 ELSE net.made[c][r]
      BY DEF Left
    <3> QED
      BY <3>1, <3>2, <3>3
  <2> QED
    BY <2>1, <2>2
<1>12. ASSUME NEW r \in Ranks
       PROVE  Stands(setup, tr, Front(net, o), Index(net, o, "world", r),
                     Index(net, o, "domain", r), at[r], task[r], runner[r])
  <2>1. task[r] = Idle /\ runner[r] = FreshRunner
    BY <1>1
  <2>2. tr[1] = First /\ tr[0 + 1] = First
    BY <1>7
  <2>3. CASE r = Root
    <3>1. at[r] = "client" /\ Index(net, o, "world", r) = 0 /\ Index(net, o, "domain", r) = 0
      BY <1>1, <1>8, <2>3
    <3>2. Heading(setup, First, 0, "client", Idle, FreshRunner)
      BY <1>9 DEF Heading
    <3> QED
      BY <1>8, <1>9, <2>1, <2>2, <3>1, <3>2 DEF Stands, WorldKinds
  <2>4. CASE r # Root
    <3>1. at[r] = "command" /\ Index(net, o, "world", r) = 1 /\ Index(net, o, "domain", r) = 0
      BY <1>1, <1>8, <2>4
    <3> QED
      BY <1>8, <1>9, <2>1, <2>2, <3>1 DEF Stands, DomainKinds
  <2> QED
    BY <2>3, <2>4
<1> QED
  BY <1>6, <1>10, <1>11, <1>12 DEF Together, o, tr

LEMMA InitHolds == Init => Inv
<1> SUFFICES ASSUME Init PROVE Inv
  OBVIOUS
<1>1. OnOneWalk
  BY InitTogether DEF OnOneWalk
<1>2. /\ setup \in Setups /\ at = [r \in Ranks |-> IF r = Root THEN "client" ELSE "command"]
      /\ task = [r \in Ranks |-> Idle] /\ runner = [r \in Ranks |-> FreshRunner]
      /\ client = Waiting("starting") /\ prompt = <<>>
  BY DEF Init
<1>3. client \in Clients /\ client.phase = "starting"
  BY <1>2, ClientTypes DEF Phases
<1>4. Root \in Ranks /\ \A w \in Workers : w \in Ranks /\ w # Root
  BY Parameters DEF Workers
<1>5. Types
  <2>1. at \in [Ranks -> Places] /\ at[Root] = "client" /\ \A w \in Workers : at[w] = "command"
    BY <1>2, <1>4 DEF Places, Kinds, Broadcasts
  <2>2. task \in [Ranks -> Payloads] /\ runner \in [Ranks -> Runners]
        /\ \A w \in Workers : runner[w].sampling.penalties = FALSE
    BY <1>2, <1>4, FreshTypes
  <2> QED
    BY <1>2, <1>3, <2>1, <2>2 DEF Types
<1>6. RootServes
  BY <1>2, <1>3, <1>4 DEF RootServes
<1> QED
  BY <1>1, <1>5, <1>6 DEF Inv

LEMMA StutterKeeps ==
  ASSUME Inv, UNCHANGED <<setup, net, at, task, runner, client, prompt>>
  PROVE  Inv'
<1>1. Types' /\ RootServes'
  BY DEF Inv, Types, RootServes, Behind, Caught
<1>2. OnOneWalk'
  BY DEF Inv, OnOneWalk
<1> QED
  BY <1>1, <1>2 DEF Inv

LEMMA NextKeeps ==
  ASSUME Inv, \A s \in Setups : Matching(s), [Next]_vars
  PROVE  Inv'
<1>1. Matching(setup)
  BY DEF Inv, Types
<1>2. ASSUME NEW r \in Workers, WorkerCommand(r) PROVE Inv'
  BY <1>1, <1>2, WorkerClearsKeeps, WorkerSetsSamplingKeeps, WorkerPrefillsKeeps,
     WorkerDecodesKeeps, WorkerForcesKeeps, WorkerExitsKeeps DEF WorkerCommand
<1>3. ASSUME NEW r \in Ranks, CallReturns(r) PROVE Inv'
  BY <1>1, <1>3, ForwardReturnsKeeps, GatherReturnsKeeps, FenceReturnsKeeps, TokenReturnsKeeps
     DEF CallReturns
<1>4. ASSUME Serves PROVE Inv'
  BY <1>1, <1>4, StartServerKeeps, SetSamplingKeeps, PrefillKeeps, DecodeStepKeeps,
     ForceDecodeTokenKeeps, EndRequestKeeps DEF Serves
<1>5. CASE HandleRequest
  BY <1>5, HandleRequestKeeps
<1>6. CASE Shutdown
  BY <1>6, ShutdownKeeps
<1>7. ASSUME NEW r \in Ranks, StageFails(r) PROVE Inv'
  BY <1>7, StutterKeeps DEF StageFails
<1>8. CASE UNCHANGED vars
  BY <1>8, StutterKeeps DEF vars
<1> QED
  BY <1>2, <1>3, <1>4, <1>5, <1>6, <1>7, <1>8 DEF Next, Progress

-----------------------------------------------------------------------------
(* What follows. *)

(* Between commands a worker is at the station rank 0 is heading to.       *)
LEMMA Rejoined ==
  ASSUME Inv, Quiescent, NEW w \in Ranks
  PROVE  Shared(runner[w]) = Shared(runner[Root])
<1>1. PICK o, tr : Together(setup, net, o, tr, at, task, runner)
  BY DEF Inv, OnOneWalk
<1>2. Wired(net) /\ Walk(setup, net, o, tr) /\ Root \in Ranks /\ at[Root] = "client"
  BY <1>1, Parameters DEF Together, Quiescent
<1> DEFINE f == Front(net, o)
<1>3. f \in Nat /\ Index(net, o, "world", Root) + 1 = f
  BY <1>2, WalkTypes DEF Front
<1>4. tr[f].core = Shared(runner[Root])
  <2>1. Stands(setup, tr, f, Index(net, o, "world", Root), Index(net, o, "domain", Root),
               "client", task[Root], runner[Root])
    BY <1>1, <1>2 DEF Together
  <2> HIDE DEF f
  <2>2. Heading(setup, tr[f], Index(net, o, "domain", Root), "client", task[Root], runner[Root])
    BY <1>3, <2>1 DEF Stands
  <2> QED
    BY <2>2 DEF Heading
<1>5. CASE w # Root
  <2>1. at[w] = "command" /\ ~MayReturn(net, w, "command")
    BY <1>5 DEF Quiescent, Workers
  <2> DEFINE a == net.made["world"][w]
             b == net.made["world"][Root]
             h == o["world"]
             i == Index(net, o, "world", w)
  <2>2. a \in Nat /\ b \in Nat /\ h \in Nat
    BY <1>2, WalkTypes
  <2>3. ~(b >= a)
    BY <2>1 DEF MayReturn, CommOf, Broadcasts
  <2>4. Stands(setup, tr, f, i, Index(net, o, "domain", w), "command", task[w], runner[w])
    BY <1>1, <2>1 DEF Together
  <2>5. i = a + h /\ f = b + h + 1
    BY DEF Index, Front
  <2> HIDE DEF i, f, a, b, h
  <2>6. i <= f /\ tr[i].core = Shared(runner[w])
    BY <2>4 DEF Stands, WorldKinds
  <2>7. i = f
    BY <2>2, <2>3, <2>5, <2>6
  <2> QED
    BY <1>4, <2>6, <2>7
<1> QED
  BY <1>5

LEMMA InvImpliesMatched == Inv => MatchedCalls
BY DEF Inv, OnOneWalk, Together, Wired, MatchedCalls

LEMMA InvImpliesAgree == Inv => RanksAgree
<1> SUFFICES ASSUME Inv, Quiescent, NEW r \in Ranks
             PROVE  LET s == runner[r] IN
                      /\ s.fed = runner[Root].fed /\ s.ready = runner[Root].ready
                      /\ s.history = runner[Root].history /\ s.last = runner[Root].last
  BY DEF RanksAgree
<1>1. runner[r] \in Runners /\ runner[Root] \in Runners
  BY Parameters DEF Inv, Types
<1>2. Shared(runner[r]) = Shared(runner[Root])
  BY Rejoined
<1>3. \A x \in Runners : /\ Shared(x).fed = x.fed /\ Shared(x).ready = x.ready
                         /\ Shared(x).history = x.history /\ Shared(x).last = x.last
  BY SharedFields
<1> QED
  BY <1>1, <1>2, <1>3

LEMMA InvImpliesRows == Inv => RowPerToken
<1> SUFFICES ASSUME Inv, Quiescent, client.phase = "decode", NEW r \in Ranks
             PROVE  LET s == runner[r] IN
                      prompt \o s.history = IF s.ready THEN s.fed ELSE Append(s.fed, s.last)
  BY DEF RowPerToken
<1>1. at[Root] = "client" /\ RootServes
  BY DEF Quiescent, Inv
<1>2. Behind(runner[Root]) \/ (runner[Root].ready = TRUE /\ Caught(runner[Root]))
  BY <1>1 DEF RootServes
<1>3. LET s == runner[Root] IN
        prompt \o s.history = IF s.ready THEN s.fed ELSE Append(s.fed, s.last)
  BY <1>2 DEF Behind, Caught
<1>4. LET s == runner[r] IN
        /\ s.fed = runner[Root].fed /\ s.ready = runner[Root].ready
        /\ s.history = runner[Root].history /\ s.last = runner[Root].last
  BY InvImpliesAgree DEF RanksAgree
<1> QED
  BY <1>3, <1>4

(* All ranks stay on one walk, if the runners support what requests ask    *)
(* for.                                                                    *)
THEOREM Invariant ==
  ASSUME \A s \in Setups : Matching(s)
  PROVE  Spec => []Inv
<1>1. Init => Inv
  BY InitHolds
<1>2. Inv /\ [Next]_vars => Inv'
  BY NextKeeps
<1> QED
  BY <1>1, <1>2, PTL DEF Spec

(* No rank's call on either communicator meets a call of another kind: no  *)
(* worker takes the tag of the next command for the token or the fence of  *)
(* the last one, for any number of ranks and of commands rank 0 is ahead.  *)
THEOREM MatchedCallsHolds ==
  ASSUME \A s \in Setups : Matching(s)
  PROVE  Spec => []MatchedCalls
<1>1. Spec => []Inv
  BY Invariant
<1> QED
  BY <1>1, InvImpliesMatched, PTL

(* When the workers have caught up with rank 0 in its handler, every rank  *)
(* has rank 0's rows, recorded tokens and last token, whatever it sampled. *)
THEOREM RanksAgreeHolds ==
  ASSUME \A s \in Setups : Matching(s)
  PROVE  Spec => []RanksAgree
<1>1. Spec => []Inv
  BY Invariant
<1> QED
  BY <1>1, InvImpliesAgree, PTL

(* However sampled and forced tokens alternate, every rank has then        *)
(* computed one row for each token of prompt and answer but the last, or   *)
(* has the logits of the prefill: no token is fed twice and none skipped.  *)
THEOREM RowPerTokenHolds ==
  ASSUME \A s \in Setups : Matching(s)
  PROVE  Spec => []RowPerToken
<1>1. Spec => []Inv
  BY Invariant
<1> QED
  BY <1>1, InvImpliesRows, PTL
=============================================================================
