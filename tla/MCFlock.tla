------------------------------- MODULE MCFlock -------------------------------
(* Instances of Flock: two handles with a goroutine each, and either an         *)
(* Unmount or a second goroutine on the first handle.                           *)
EXTENDS Flock, TLC

CONSTANTS h1, h2, t1, t2, t3

VARIABLE scenario

SharedHandle == t1 :> h1 @@ t2 :> h2 @@ t3 :> h1

MCInit == Init /\ scenario \in {"unmounted", "shared"}

\* Without the second goroutine of h1.
Unmounted == scenario = "unmounted" /\ pc'[t3] = "idle" /\ UNCHANGED scenario

\* Without an Unmount.  Of the goroutines of h1 the first makes blocking calls, and
\* the second ones that try for an exclusive lock.
SharedH1 == /\ scenario = "shared" /\ purging' = 0 /\ UNCHANGED scenario
            /\ pc'[t1] = "acquire" => ~nb'[t1]
            /\ pc'[t3] = "acquire" => kind'[t3] = "excl" /\ nb'[t3]

MCNext == Next /\ (Unmounted \/ SharedH1)

\* What the scenarios leave out, calls and an Unmount, no fairness forces.
MCSpec == MCInit /\ [][MCNext]_<<vars, scenario>> /\ Fairness
==============================================================================
