--------------------------- MODULE IdentityRegister ---------------------------
(***************************************************************************)
(* What the agent hub promises (socialwarehouse/core/agent.py,             *)
(* core/mixins.py: "Immutable once assigned"): identities are only added,  *)
(* and a typed row, once it has a hub, keeps it and it is its own.         *)
(***************************************************************************)
CONSTANTS Identities, NoHub

VARIABLES known, hubOf

RegisterInit ==
    /\ known \subseteq Identities
    /\ hubOf = [i \in Identities |-> NoHub]

\* any number of identities become known, and of known ones linked
Enter ==
    /\ known \subseteq known' /\ known' \subseteq Identities
    /\ hubOf' \in [Identities -> Identities \cup {NoHub}]
    /\ \A i \in Identities :
        hubOf'[i] # hubOf[i] => hubOf[i] = NoHub /\ hubOf'[i] = i /\ i \in known'

RegisterSpec == RegisterInit /\ [][Enter]_<<known, hubOf>>
=============================================================================
