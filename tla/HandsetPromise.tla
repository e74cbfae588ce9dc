--------------------------- MODULE HandsetPromise ---------------------------
(***************************************************************************)
(* What the system promises the person holding a financed handset,         *)
(* whatever the server, the network and the app's threads do:              *)
(*   - the phone is restricted only by an attempt that began while the app *)
(*     managed it, and after its owner had signed an agreement saying that *)
(*     it may be;                                                          *)
(*   - once the app has stepped down no attempt begins, so a phone handed  *)
(*     back stays free until it is reset and provisioned again, as soon as *)
(*     the attempts that were under way have ended.                        *)
(* LockProtocol is the detailed specification that keeps this promise.     *)
(***************************************************************************)

VARIABLES
  agreed,      \* an agreement consenting to restriction has been signed
  managed,     \* the app holds the handset (Android's device owner)
  seizing,     \* an attempt to restrict it is under way
  restricted   \* the app's restriction is in force

vars == <<agreed, managed, seizing, restricted>>

Init == /\ agreed = FALSE
        /\ managed \in BOOLEAN
        /\ seizing = FALSE
        /\ restricted = FALSE

Agree == /\ agreed' = TRUE
         /\ UNCHANGED <<managed, seizing, restricted>>

Seize == /\ managed
         /\ agreed
         /\ seizing' = TRUE
         /\ UNCHANGED <<agreed, managed, restricted>>

GiveUp == /\ seizing' = FALSE
          /\ UNCHANGED <<agreed, managed, restricted>>

\* One attempt succeeds; another may still be under way.
Restrict == /\ seizing
            /\ seizing' \in BOOLEAN
            /\ restricted' = TRUE
            /\ UNCHANGED <<agreed, managed>>

Lift == /\ restricted' = FALSE
        /\ UNCHANGED <<agreed, managed, seizing>>

StepDown == /\ managed' = FALSE
            /\ UNCHANGED <<agreed, seizing, restricted>>

\* A factory reset, followed by a provisioning that may or may not make the
\* app device owner.
Reset == /\ managed' \in BOOLEAN
         /\ seizing' = FALSE
         /\ restricted' = FALSE
         /\ UNCHANGED agreed

Next == Agree \/ Seize \/ GiveUp \/ Restrict \/ Lift \/ StepDown \/ Reset

Spec == Init /\ [][Next]_vars

=============================================================================
