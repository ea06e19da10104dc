------------------------------ MODULE MCClients ------------------------------
(* The gasworks commands for TLC.  CredentialStore, DeviceFlow and MintKey     *)
(* share no state, so a behaviour is one of theirs: `subsystem` says whose,    *)
(* and the other two stay in one initial state.                                *)
EXTENDS CredentialStore, DeviceFlow, MintKey

VARIABLE subsystem

Init ==
  /\ subsystem \in {"credentials", "login", "mint-key"}
  /\ CredInit /\ (subsystem # "credentials" => creds = EmptyData)
  /\ FlowInit /\ (subsystem # "login" => flow.way = "edge")
  /\ MintInit

NextCredentials == subsystem = "credentials" /\ CredNext /\ UNCHANGED <<flowVars, mintVars>>
NextLogin       == subsystem = "login" /\ FlowNext /\ UNCHANGED <<credVars, mintVars>>
NextMintKey     == subsystem = "mint-key" /\ MintNext /\ UNCHANGED <<credVars, flowVars>>

Next == UNCHANGED subsystem /\ (NextCredentials \/ NextLogin \/ NextMintKey)

vars == <<credVars, flowVars, mintVars, subsystem>>
Spec == Init /\ [][Next]_vars
=============================================================================
