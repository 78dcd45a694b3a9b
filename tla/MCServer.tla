------------------------------ MODULE MCServer ------------------------------
(* Small instances of Server for TLC. *)
EXTENDS Server, TLC

On(trigger, type) == [trigger |-> trigger, type |-> type]
TwoBackends == <<On("source-connect", "exec"), On("source-disconnect", "url")>>
OneBackend == <<On("source-connect", "url")>>
=============================================================================
