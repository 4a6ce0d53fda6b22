----------------------------- MODULE MCGateway -----------------------------
(* Small instances of Gateway. *)
EXTENDS Gateway, TLC

\* Two events: e2 sets both fields that share the active power register.
MCControlOf ==
    ("e1" :> ("opModFixedW" :> -50 @@ "opModConnect" :> TRUE))
    @@ ("e2" :> ("opModFixedW" :> 20 @@ "opModTargetW" :> 30 @@ "rampTms" :> 2))
    @@ ("e3" :> ("opModEnergize" :> FALSE))

MCMrid == {"e1", "e2", "e3"}

MCDefaultControl == {"opModMaxLimW" :> 80 @@ "opModFixedW" :> 10}

\* Two events that touch different registers.
MCDisjointControlOf ==
    ("e1" :> ("opModFixedW" :> -50)) @@ ("e2" :> ("opModFixedVar" :> 30))

MCDisjointMrid == {"e1", "e2"}
=============================================================================
