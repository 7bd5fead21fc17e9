-------------------------- MODULE CoordinatedDecode --------------------------
(***************************************************************************)
(* Serving chat requests on several MPI ranks (OrchestrationRunner in      *)
(* coordinated mode). Rank 0 runs the request handler and publishes every  *)
(* call of its runner as a command; the other ranks sit in                 *)
(* runMPIWorkerLoop() and make the same call. Inside a call the ranks meet *)
(* in the collectives of the tensor-parallel forward pass and of greedy    *)
(* sampling, which have a communicator of their own, and in the fence and  *)
(* the token broadcast of the command communicator.                        *)
(*                                                                         *)
(* A rank's step goes from the return of one collective to its next one:   *)
(* what it does in between is its own. The collectives of one forward pass *)
(* are one call here, and a command travels with its arguments in one      *)
(* broadcast. Without MTP, prefix cache and expert rebalancing.            *)
(***************************************************************************)
EXTENDS Integers, Sequences

CONSTANTS
  Ranks, Root,
  Tokens,
  StopTokens,       \* stop_tokens_
  EndTags,          \* tokens that end the thinking part
  ZeroToken,        \* what a worker enters when it need not sample
  Prompts,
  MaxContext,       \* config().max_seq_len
  ActivationLength, \* longest prompt that fits the activation buffers
  MaxTokens,        \* max_tokens of a request
  MaxAhead,         \* bound: commands some worker has not yet taken when
                    \* the next request comes; MPI buffers only so many
  Budgets,          \* thinking_budget_tokens of requests, NoBudget for none
  StopThinking,     \* the forced tokens of getStopThinkingPrompt()
  Setups,           \* [gpu, sharded, samplings]: see below
  StagesFail,       \* a stage may fail on one rank
  ChatTemplates     \* whether the model has a chat template: possible values

NoBudget == -1

(* SamplingParams: is_greedy(), has_penalties(), and whether top_k is in   *)
(* 1..256, which the GPU can sample from.                                  *)
Samplings == [greedy : BOOLEAN, penalties : BOOLEAN, narrow : BOOLEAN]

ASSUME CoordinatedAssumption ==
  /\ Root \in Ranks
  /\ StopTokens \subseteq Tokens /\ EndTags \subseteq Tokens
  /\ ZeroToken \in Tokens
  /\ Prompts \subseteq Seq(Tokens) \ {<<>>}
  /\ MaxContext \in Nat /\ ActivationLength \in Nat
  /\ MaxTokens \in Nat \ {0} /\ MaxAhead \in Nat \ {0}
  /\ Budgets \subseteq Nat \cup {NoBudget}
  /\ StopThinking \in Seq(Tokens) \ {<<>>}
  /\ StagesFail \in BOOLEAN
  /\ ChatTemplates \subseteq BOOLEAN
  /\ Setups \subseteq [gpu : BOOLEAN, sharded : BOOLEAN, samplings : SUBSET Samplings]

Workers == Ranks \ {Root}

VARIABLES
  setup,    \* gpu: the ranks compute on GPUs; sharded: with a column-
            \* parallel LM head; samplings: what requests may ask for
  net, at,  \* the communicators, and the call each rank is blocked in
  task,     \* the command each rank is executing
  runner,   \* each rank's runner
  client,   \* the request handler of rank 0
  prompt,   \* history: the prompt of the request
  aborted   \* MPI_Abort() ended the job

vars == <<setup, net, at, task, runner, client, prompt, aborted>>

Comms == {"world", "domain"}
Broadcasts == {"command", "token"}
Kinds == Broadcasts \cup {"fence", "forward", "gather"}
CommOf(k) == IF k \in {"forward", "gather"} THEN "domain" ELSE "world"

INSTANCE MPICalls

Greedy == [greedy |-> TRUE, penalties |-> FALSE, narrow |-> FALSE]
Idle == [cmd |-> "none", arg |-> 0]

(***************************************************************************)
(* The client: the request handler on rank 0.                              *)
(***************************************************************************)
NewRequest(p, sampling, budget) ==
  [phase |-> "sampling", prompt |-> p, sampling |-> sampling,
   budget |-> budget, completion |-> 0, thought |-> 0,
   inThinking |-> budget # 0, forcing |-> IF budget = 0 THEN 1 ELSE 0]

Waiting(phase) == [NewRequest(<<>>, Greedy, NoBudget) EXCEPT !.phase = phase]

(* One turn of the decode loop returned a token. Thinking that exceeds its *)
(* budget is ended by forcing the stop prompt, one token a turn.           *)
Received(c, token) ==
  LET stop == token \in StopTokens
      counting == c.budget # NoBudget /\ c.inThinking /\ ~stop
      thinks == counting /\ token \notin EndTags
      over == thinks /\ c.thought + 1 >= c.budget
  IN [c EXCEPT
        !.completion = @ + 1,
        !.phase = IF stop \/ c.completion + 1 >= MaxTokens THEN "ending" ELSE @,
        !.thought = IF thinks THEN @ + 1 ELSE @,
        !.inThinking = @ /\ ~(counting /\ token \in EndTags) /\ ~over,
        !.forcing = IF over THEN 1
                    ELSE IF @ = 0 \/ @ = Len(StopThinking) THEN 0 ELSE @ + 1]

(* Any error ends the request with a 500.                                  *)
Failed(c) == [c EXCEPT !.phase = "ending"]

(***************************************************************************)
(* A rank's runner.                                                        *)
(***************************************************************************)
FreshRunner == [fed |-> <<>>, ready |-> FALSE, last |-> ZeroToken,
                history |-> <<>>, sampling |-> Greedy, sample |-> ZeroToken]

Cleared(s) == [s EXCEPT !.fed = <<>>, !.ready = FALSE, !.history = <<>>]

Configured(s, sampling) == [s EXCEPT !.sampling = sampling, !.history = <<>>]

(* SET_SAMPLING carries temperature, top_p, top_k and seed.                *)
OnTheWire(sampling) == [sampling EXCEPT !.penalties = FALSE]

Recorded(s, token) ==
  [s EXCEPT !.history = Append(@, token), !.last = token, !.sample = ZeroToken]

(* Mutant: the LM head is not asked for. *)
CoordinatesAlways(s) == setup.gpu /\ s.sampling.greedy /\ ~s.sampling.penalties

(* Greedy sampling from a sharded LM head gathers the ranks' candidates.   *)
RequiresCoordinatedSampling(s) ==
  /\ setup.gpu /\ setup.sharded
  /\ s.sampling.greedy /\ ~s.sampling.penalties

(* A forward pass on the GPU leaves its logits unsynchronized when the GPU *)
(* is expected to sample from them.                                        *)
DefersSync(s) ==
  /\ setup.gpu /\ ~s.sampling.penalties
  /\ s.sampling.greedy \/ s.sampling.narrow

(***************************************************************************)
(* Steps of a rank. Each ends with the rank in its next call, or, on rank  *)
(* 0, back in the request handler.                                         *)
(***************************************************************************)
Running == ~net.crossed /\ ~aborted

Goes(r, n, place) ==
  /\ at' = [at EXCEPT ![r] = place]
  /\ net' = Retired(n, at')

Calls(r, n, kind) == Goes(r, Entered(n, r, kind, Nothing), kind)

(* What a collective is about to come to is settled when rank 0 enters it. *)
CallsWith(r, n, kind, token) ==
  Goes(r, Entered(n, r, kind, [cmd |-> kind, arg |-> token]), kind)

Becomes(r, s) == runner' = [runner EXCEPT ![r] = s]

(* The runner's method returns: to the handler, or to the worker loop,     *)
(* which waits for the next command whatever the result was.               *)
Return(r, n, c) ==
  IF r = Root THEN Goes(r, n, "client") /\ client' = c
  ELSE Calls(r, n, "command") /\ UNCHANGED client

Starts(r, command) == task' = [task EXCEPT ![r] = command]

(* forward(&last_token_, 1) or the prompt's; a prompt that does not fit    *)
(* is refused by every rank before any stage.                              *)
PrefillBody(r, n, p) ==
  LET s == [runner[r] EXCEPT !.last = p[Len(p)]]
  IN /\ Becomes(r, s)
     /\ IF Len(p) > ActivationLength
        THEN Return(r, n, Failed(client))
        ELSE Calls(r, n, "forward") /\ UNCHANGED client

(* Mutant: a worker that has nothing to sample is done. *)
SampleOrLeave(r, n, s, deferred) ==
  /\ \E t \in IF r = Root THEN Tokens ELSE {ZeroToken} :
       Becomes(r, [s EXCEPT !.sample = t])
  /\ IF r = Root THEN Calls(r, n, "fence") /\ UNCHANGED client
     ELSE Return(r, n, client)

(* Rank 0 samples; a worker takes part where a collective needs it, and    *)
(* goes on with token 0 elsewhere. The best of the candidates gathered is  *)
(* the same for all. Without a collective rank 0 samples on the host; if   *)
(* the logits are deferred it returns an error, and skips the fence.       *)
Sample(r, n, s, deferred) ==
  \/ /\ RequiresCoordinatedSampling(s)
     /\ \E t \in IF r = Root THEN Tokens ELSE {ZeroToken} :
          CallsWith(r, n, "gather", t)
     /\ Becomes(r, s) /\ UNCHANGED client
  \/ /\ ~RequiresCoordinatedSampling(s) /\ (r = Root => ~deferred)
     /\ \E t \in IF r = Root THEN Tokens ELSE {ZeroToken} :
          Becomes(r, [s EXCEPT !.sample = t])
     /\ Calls(r, n, "fence") /\ UNCHANGED client
  \/ /\ ~RequiresCoordinatedSampling(s) /\ r = Root /\ deferred
     /\ Becomes(r, s) /\ Return(r, n, Failed(client))

(* Mutant: the last prompt token is fed again after the prefill. *)
DecodeBodyRefeeds(r, n) == Calls(r, n, "forward") /\ UNCHANGED <<runner, client>>

DecodeBody(r, n) ==
  IF runner[r].ready
  THEN Sample(r, n, [runner[r] EXCEPT !.ready = FALSE], FALSE)
  ELSE Calls(r, n, "forward") /\ UNCHANGED <<runner, client>>

(* The fence of forceDecodeToken() is in a destructor: the token is        *)
(* recorded before it.                                                     *)
ForceBody(r, n, token) ==
  IF runner[r].ready
  THEN /\ Becomes(r, Recorded([runner[r] EXCEPT !.ready = FALSE], token))
       /\ Calls(r, n, "fence") /\ UNCHANGED client
  ELSE Calls(r, n, "forward") /\ UNCHANGED <<runner, client>>

(***************************************************************************)
(* Rank 0: the handler publishes a command and executes it.                *)
(***************************************************************************)
Publish(cmd, arg) ==
  /\ Running /\ at[Root] = "client"
  /\ Starts(Root, [cmd |-> cmd, arg |-> arg])

Published(cmd, arg) == Entered(net, Root, "command", [cmd |-> cmd, arg |-> arg])

(* ServerMode: without a chat template the server ends before it has       *)
(* switched coordinated mode on, and nothing is published.                 *)
StartServer ==
  /\ Running /\ client.phase = "starting"
  /\ \E template \in ChatTemplates :
       IF template
       THEN client' = [client EXCEPT !.phase = "idle"] /\ UNCHANGED at
       ELSE /\ client' = [client EXCEPT !.phase = "exited"]
            /\ at' = [at EXCEPT ![Root] = "exited"]
  /\ UNCHANGED <<setup, net, task, runner, prompt, aborted>>

(* setupInference(): clearCache() first.                                   *)
HandleRequest ==
  /\ client.phase = "idle" /\ Len(net.calls["world"]) <= MaxAhead
  /\ Publish("clear", 0)
  /\ \E p \in Prompts, sampling \in setup.samplings, b \in Budgets :
       /\ client' = NewRequest(p, sampling, b)
       /\ prompt' = p
  /\ Becomes(Root, Cleared(runner[Root]))
  /\ Goes(Root, Published("clear", 0), "client")
  /\ UNCHANGED <<setup, aborted>>

(* setSamplingParams(), then the handler's own test of the prompt.         *)
SetSampling ==
  /\ client.phase = "sampling"
  /\ Publish("sampling", OnTheWire(client.sampling))
  /\ Becomes(Root, Configured(runner[Root], client.sampling))
  /\ client' = IF Len(client.prompt) > MaxContext THEN Failed(client)
               ELSE [client EXCEPT !.phase = "prefill"]
  /\ Goes(Root, Published("sampling", OnTheWire(client.sampling)), "client")
  /\ UNCHANGED <<setup, prompt, aborted>>

Prefill ==
  /\ client.phase = "prefill"
  /\ Publish("prefill", client.prompt)
  /\ PrefillBody(Root, Published("prefill", client.prompt), client.prompt)
  /\ UNCHANGED <<setup, prompt, aborted>>

DecodeStep ==
  /\ client.phase = "decode" /\ client.forcing = 0
  /\ Publish("decode", 0)
  /\ DecodeBody(Root, Published("decode", 0))
  /\ UNCHANGED <<setup, prompt, aborted>>

ForceDecodeToken ==
  /\ client.phase = "decode" /\ client.forcing # 0
  /\ LET token == StopThinking[client.forcing]
     IN /\ Publish("force", token)
        /\ ForceBody(Root, Published("force", token), token)
  /\ UNCHANGED <<setup, prompt, aborted>>

(* RequestCacheCleanup, whatever the request came to.                      *)
EndRequest ==
  /\ client.phase = "ending"
  /\ Publish("clear", 0)
  /\ Becomes(Root, Cleared(runner[Root]))
  /\ client' = Waiting("idle")
  /\ Goes(Root, Published("clear", 0), "client")
  /\ UNCHANGED <<setup, prompt, aborted>>

Shutdown ==
  /\ client.phase = "idle"
  /\ Publish("shutdown", 0)
  /\ client' = [client EXCEPT !.phase = "exited"]
  /\ Goes(Root, Published("shutdown", 0), "exited")
  /\ UNCHANGED <<setup, runner, prompt, aborted>>

(***************************************************************************)
(* A worker takes the next command.                                        *)
(***************************************************************************)
In(r, kind) == Running /\ at[r] = kind /\ MayReturn(net, r, kind)

Dispatch(r, cmd) ==
  /\ In(r, "command")
  /\ Delivered(net, r, "command").cmd = cmd
  /\ Starts(r, Delivered(net, r, "command"))

WorkerClears(r) ==
  /\ Dispatch(r, "clear")
  /\ Becomes(r, Cleared(runner[r]))
  /\ Return(r, net, client)
  /\ UNCHANGED <<setup, prompt, aborted>>

WorkerSetsSampling(r) ==
  /\ Dispatch(r, "sampling")
  /\ Becomes(r, Configured(runner[r], task'[r].arg))
  /\ Return(r, net, client)
  /\ UNCHANGED <<setup, prompt, aborted>>

WorkerPrefills(r) ==
  /\ Dispatch(r, "prefill")
  /\ PrefillBody(r, net, task'[r].arg)
  /\ UNCHANGED <<setup, prompt, aborted>>

WorkerDecodes(r) ==
  /\ Dispatch(r, "decode")
  /\ DecodeBody(r, net)
  /\ UNCHANGED <<setup, prompt, aborted>>

WorkerForces(r) ==
  /\ Dispatch(r, "force")
  /\ ForceBody(r, net, task'[r].arg)
  /\ UNCHANGED <<setup, prompt, aborted>>

(* Mutant: a shutdown is an unknown command. *)
WorkerIgnoresShutdown(r) ==
  /\ Dispatch(r, "shutdown")
  /\ Return(r, net, client)
  /\ UNCHANGED <<setup, runner, prompt, aborted>>

WorkerExits(r) ==
  /\ Dispatch(r, "shutdown")
  /\ Goes(r, net, "exited")
  /\ UNCHANGED <<setup, runner, client, prompt, aborted>>

(***************************************************************************)
(* Any rank leaves a collective inside a command.                          *)
(***************************************************************************)
ForwardReturns(r) ==
  /\ In(r, "forward")
  /\ LET s == runner[r]
         fedLast == [s EXCEPT !.fed = Append(@, s.last)]
     IN CASE task[r].cmd = "prefill" ->
               /\ Becomes(r, [s EXCEPT !.fed = @ \o task[r].arg, !.ready = TRUE])
               /\ Return(r, net, [client EXCEPT !.phase = "decode"])
          [] task[r].cmd = "decode" -> Sample(r, net, fedLast, DefersSync(s))
          [] task[r].cmd = "force" ->
               /\ Becomes(r, Recorded(fedLast, task[r].arg))
               /\ Calls(r, net, "fence") /\ UNCHANGED client
  /\ UNCHANGED <<setup, task, prompt, aborted>>

GatherReturns(r) ==
  /\ In(r, "gather")
  /\ Becomes(r, [runner[r] EXCEPT !.sample = Delivered(net, r, "gather").arg])
  /\ Calls(r, net, "fence")
  /\ UNCHANGED <<setup, task, client, prompt, aborted>>

(* decodeStep(): rank 0's token is everybody's.                            *)
FenceReturns(r) ==
  /\ In(r, "fence")
  /\ LET token == runner[r].sample IN
     CASE task[r].cmd = "force" ->
            /\ Return(r, net, Received(client, task[r].arg))
            /\ UNCHANGED runner
       [] task[r].cmd = "decode" /\ r = Root ->
            /\ Becomes(r, Recorded(runner[r], token))
            /\ Return(r, Entered(net, r, "token", [cmd |-> "token", arg |-> token]),
                      Received(client, token))
       [] task[r].cmd = "decode" /\ r # Root ->
            Calls(r, net, "token") /\ UNCHANGED <<runner, client>>
  /\ UNCHANGED <<setup, task, prompt, aborted>>

(* Mutant: a worker records its own token. *)
TokenReturnsUnused(r) ==
  /\ In(r, "token")
  /\ Becomes(r, Recorded(runner[r], runner[r].sample))
  /\ Return(r, net, client)
  /\ UNCHANGED <<setup, task, prompt, aborted>>

TokenReturns(r) ==
  /\ In(r, "token")
  /\ Becomes(r, Recorded(runner[r], Delivered(net, r, "token").arg))
  /\ Return(r, net, client)
  /\ UNCHANGED <<setup, task, prompt, aborted>>

(* stage_failure_callback: a rank whose stage fails ends the job.          *)
StageFails(r) ==
  /\ StagesFail /\ Running /\ at[r] = "forward"
  /\ aborted' = TRUE
  /\ UNCHANGED <<setup, net, at, task, runner, client, prompt>>

Init ==
  /\ setup \in Setups
  /\ at = [r \in Ranks |-> IF r = Root THEN "client" ELSE "command"]
  /\ net = [QuietNet EXCEPT
              !.calls["world"] = <<[kind |-> "command", payload |-> Nothing]>>,
              !.made["world"] = [r \in Ranks |-> IF r = Root THEN 0 ELSE 1]]
  /\ task = [r \in Ranks |-> Idle]
  /\ runner = [r \in Ranks |-> FreshRunner]
  /\ client = Waiting("starting")
  /\ prompt = <<>>
  /\ aborted = FALSE

WorkerCommand(r) ==
  \/ WorkerClears(r) \/ WorkerSetsSampling(r) \/ WorkerPrefills(r)
  \/ WorkerDecodes(r) \/ WorkerForces(r) \/ WorkerExits(r)

CallReturns(r) ==
  ForwardReturns(r) \/ GatherReturns(r) \/ FenceReturns(r) \/ TokenReturns(r)

Serves ==
  StartServer \/ SetSampling \/ Prefill \/ DecodeStep \/ ForceDecodeToken \/ EndRequest

Progress ==
  \/ Serves
  \/ \E r \in Workers : WorkerCommand(r)
  \/ \E r \in Ranks : CallReturns(r)

Next == HandleRequest \/ Shutdown \/ Progress \/ \E r \in Ranks : StageFails(r)

Spec == Init /\ [][Next]_vars

(* The ranks do not all stop while one of them can go on. Nobody need ever *)
(* ask for anything, stop the server or fail.                              *)
FairSpec == Spec /\ WF_vars(Progress)

-----------------------------------------------------------------------------
(* Properties. *)

Phases == {"starting", "idle", "sampling", "prefill", "decode", "ending", "exited"}
Commands == {"none", "clear", "sampling", "prefill", "decode", "force", "shutdown"}

(* Every variable stays in its range. Nothing is recorded past the request *)
(* limit, and no rank computes more rows than prompt and tokens have.      *)
TypeOK ==
  /\ setup \in Setups
  /\ at \in [Ranks -> Kinds \cup {"client", "exited"}]
  /\ at[Root] # "command" /\ \A w \in Workers : at[w] # "client"
  /\ \A c \in Comms : \A i \in DOMAIN net.calls[c] :
       CommOf(net.calls[c][i].kind) = c
  /\ \A c \in Comms, r \in Ranks : net.made[c][r] \in 0..Len(net.calls[c])
  /\ \A r \in Ranks :
       /\ task[r].cmd \in Commands
       /\ runner[r].sampling \in Samplings
       /\ runner[r].last \in Tokens /\ runner[r].sample \in Tokens
       /\ runner[r].ready \in BOOLEAN
       /\ Len(runner[r].history) <= MaxTokens
       /\ Len(runner[r].fed) < ActivationLength + MaxTokens
  /\ client.phase \in Phases
  /\ client.completion \in 0..MaxTokens
  /\ client.forcing \in 0..Len(StopThinking)
  /\ aborted \in BOOLEAN

(* All calls of the ranks meet calls of the same kind: no worker takes the *)
(* tag of the next command for the token or the fence of the last one.     *)
MatchedCalls == ~net.crossed

(* Between commands: rank 0 is in its handler and every worker waits for a *)
(* command that is not yet published.                                      *)
Quiescent ==
  /\ at[Root] = "client"
  /\ \A w \in Workers : at[w] = "command" /\ ~MayReturn(net, w, "command")

(* However sampled and forced tokens alternate, every rank has computed    *)
(* exactly one row for each token of prompt and answer but the last, which *)
(* the next step feeds, or whose logits are ready after the prefill: no    *)
(* token is fed twice and none is skipped.                                 *)
RowPerToken ==
  Quiescent /\ client.phase = "decode" =>
    \A r \in Ranks : LET s == runner[r] IN
      prompt \o s.history = IF s.ready THEN s.fed ELSE Append(s.fed, s.last)

(* Workers agree with rank 0 on the sequence, whatever they sampled.       *)
RanksAgree ==
  Quiescent => \A r \in Ranks : LET s == runner[r] IN
    /\ s.fed = runner[Root].fed /\ s.ready = runner[Root].ready
    /\ s.history = runner[Root].history /\ s.last = runner[Root].last

(* Every request is answered: no rank waits in a collective that another   *)
(* does not enter. Only the end of the job excuses it.                     *)
RequestsEnd ==
  client.phase \notin {"starting", "idle", "exited"} ~> client.phase = "idle" \/ aborted

(* When the server has stopped, the workers return from their loops.       *)
WorkersLeave ==
  client.phase = "exited" ~> (\A w \in Workers : at[w] = "exited") \/ aborted
=============================================================================
