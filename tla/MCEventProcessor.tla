-------------------------- MODULE MCEventProcessor --------------------------
(* Model-checking instances of EventProcessor. *)
EXTENDS EventProcessor

\* Every kind of raw event (apiPostProcessed is only read for Ruby events).
AllEvents ==
  {e \in [decodes : BOOLEAN, timestamp : BOOLEAN, ruby : BOOLEAN,
          apiPostProcessed : BOOLEAN] :
     /\ e.apiPostProcessed => e.ruby
     /\ ~e.decodes => ~e.timestamp /\ ~e.ruby}
=============================================================================
