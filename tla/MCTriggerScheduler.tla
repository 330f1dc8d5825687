------------------------- MODULE MCTriggerScheduler -------------------------
EXTENDS TriggerScheduler, TLC

CONSTANTS n1, h1

\* All triggers and all other runs belong to one tenant, all events go to one
\* webhook.
OneTenant == [t \in Triggers |-> n1]
DirectOneTenant == [d \in Direct |-> n1]
OneWebhook == [e \in Events |-> h1]

\* Every event has a payload of its own.
OwnPayload == [e \in Events |-> e]

Symmetry == Permutations(Workers) \cup Permutations(Callers)
=============================================================================
