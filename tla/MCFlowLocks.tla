---------------------------- MODULE MCFlowLocks ----------------------------
(* The threads of one node: both block factories and the mem-pool's cleaner *)
(* on the formation manager, the block processor on the verification one.   *)
EXTENDS FlowLocks, TLC

CONSTANTS key, data, processor, cleaner, formationFlow, verificationFlow

MCManager == {formationFlow, verificationFlow}
MCKeyFactory == {key}
MCDataFactory == {data}
MCBlockProcessor == {processor}
MCCleaner == {cleaner}
MCManagerOf == (key :> formationFlow) @@ (data :> formationFlow)
               @@ (cleaner :> formationFlow) @@ (processor :> verificationFlow)
=============================================================================
