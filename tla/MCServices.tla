----------------------------- MODULE MCServices -----------------------------
(***************************************************************************)
(* TLC instance of the services around the frame: the task deque, the      *)
(* command queue of the render server, the frame graph, RPC rate limits,   *)
(* the assistant's dispatches, the graph debugger, and the host of         *)
(* plugins.  None calls another, so a behaviour moves one of them and      *)
(* leaves the others as they began: every behaviour of each is checked,    *)
(* and no product.                                                         *)
(*                                                                         *)
(* Two thieves rob a ring of two slots that has to grow, with fewer cells  *)
(* than pushes, so that cells are recycled.  Commands nest two deep (a1    *)
(* submits a2, a2 submits a3), one beside them nests once (b1 submits b2), *)
(* one is plain.  The passes build chains, a pass with two producers, an   *)
(* external read, a cycle and a self read; a pass may be added twice, and  *)
(* then the last writer is the producer.  One RPC type has a rate of its   *)
(* own above the global one.  One agent is moved between a pipe and HTTP.  *)
(* The two interchangeable values serve as thieves and as connections.     *)
(***************************************************************************)
EXTENDS WorkDeque, RenderServer, RenderFrame, Rpc, AssistantDispatch, GraphDebug, PluginHost, TLC

CONSTANTS a1, a2, a3, b1, b2, plain, r1, r2, t1, t2, k1, k2, k3, c1, c2, agent, pipe, web,
          look, edit, g1, n1, n2

MCNested == (a1 :> a2) @@ (a2 :> a3) @@ (b1 :> b2) @@ [other \in {plain, a3, b2} |-> NoCommand]

MCPass == {
    [in |-> {}, out |-> {r1}], [in |-> {r1}, out |-> {r2}], [in |-> {r1, r2}, out |-> {}],
    [in |-> {r2}, out |-> {r1}], [in |-> {r2}, out |-> {r2}] }

MCRate == ("chat" :> 2)

MCNeeds == (look :> {1}) @@ (edit :> {1, 2})
MCGrant == {{1}, {1, 2}}

MCSymmetry == Permutations({t1, t2})

ServicesInit ==
    /\ DequeInit /\ ServerInit /\ FrameInit /\ RpcInit /\ AssistantInit /\ DebugInit /\ PluginInit

Rest1 == DequeInit /\ ServerInit
Rest2 == FrameInit /\ RpcInit
Rest3 == AssistantInit /\ DebugInit
Rest4 == PluginInit

Keep1 == UNCHANGED <<dequeVars, serverVars>>
Keep2 == UNCHANGED <<frameVars, rpcVars>>
Keep3 == UNCHANGED <<assistantVars, debugVars>>
Keep4 == UNCHANGED pluginVars

ServicesNext ==
    \/ /\ Rest2 /\ Rest3 /\ Rest4 /\ Keep2 /\ Keep3 /\ Keep4
       /\ \/ ServerInit /\ DequeNext /\ UNCHANGED serverVars
          \/ DequeInit /\ ServerNext /\ UNCHANGED dequeVars
    \/ /\ Rest1 /\ Rest3 /\ Rest4 /\ Keep1 /\ Keep3 /\ Keep4
       /\ \/ RpcInit /\ FrameNext /\ UNCHANGED rpcVars
          \/ FrameInit /\ RpcNext /\ UNCHANGED frameVars
    \/ /\ Rest1 /\ Rest2 /\ Rest4 /\ Keep1 /\ Keep2 /\ Keep4
       /\ \/ DebugInit /\ AssistantNext /\ UNCHANGED debugVars
          \/ AssistantInit /\ DebugNext /\ UNCHANGED assistantVars
    \/ Rest1 /\ Rest2 /\ Rest3 /\ PluginNext /\ Keep1 /\ Keep2 /\ Keep3

ServicesSpec ==
    ServicesInit
    /\ [][ServicesNext]_<<dequeVars, serverVars, frameVars, rpcVars,
                          assistantVars, debugVars, pluginVars>>
=============================================================================
