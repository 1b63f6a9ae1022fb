---------------------------- MODULE MCLLMFallback ----------------------------
(***************************************************************************)
(* Two requests over three models: the primary and the last fallback share *)
(* a provider, so that failing on one can close the door on the other.     *)
(***************************************************************************)
EXTENDS LLMFallback, TLC

CONSTANTS local, mini, turbo,  (* models    *)
          pA, pB               (* providers *)

MCModels     == {local, mini, turbo}
MCProviderOf == (local :> pA) @@ (mini :> pB) @@ (turbo :> pA)
MCChain      == <<mini, turbo>>
MCPrimaries  == {local}
MCOverrides  == {<<mini, local>>}
=============================================================================
