----------------------------- MODULE ExactlyOnce -----------------------------
(***************************************************************************)
(* What a tool call over an unreliable path should look like to the agent  *)
(* and to the observer: an operation takes effect at most once, and a      *)
(* request is answered only with the effect its operation has.             *)
(***************************************************************************)
CONSTANTS Requests, Ops, OpOf, NoEffect

VARIABLES
    effect,    \* the effect of an operation, or NoEffect
    answer     \* the effect a request was told, or NoEffect

Init ==
    /\ effect = [o \in Ops |-> NoEffect]
    /\ answer = [r \in Requests |-> NoEffect]

\* The operation of r takes effect, by the execution r asked for.
TakeEffect(r) ==
    /\ effect[OpOf[r]] = NoEffect
    /\ effect' = [effect EXCEPT ![OpOf[r]] = r]
    /\ UNCHANGED answer

\* Request r is told the effect of its operation.
Tell(r) ==
    /\ effect[OpOf[r]] # NoEffect
    /\ answer[r] = NoEffect
    /\ answer' = [answer EXCEPT ![r] = effect[OpOf[r]]]
    /\ UNCHANGED effect

Next == \E r \in Requests : TakeEffect(r) \/ Tell(r)

Spec == Init /\ [][Next]_<<effect, answer>>

=============================================================================
