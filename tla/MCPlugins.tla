------------------------------- MODULE MCPlugins -------------------------------
(* PluginHooks with a plugin of two hooks and a plugin of one that runs between them. *)
EXTENDS PluginHooks

CONSTANTS p1, p2, h1, h2, h3, r1, r2, r3, e1

MCHooksOf == (p1 :> <<[handler |-> h1, priority |-> 1], [handler |-> h2, priority |-> 2]>>)
          @@ (p2 :> <<[handler |-> h3, priority |-> 1]>>)

MCSymmetry == Permutations(Requests)
=============================================================================
