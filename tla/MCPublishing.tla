---------------------------- MODULE MCPublishing ----------------------------
\* A schema on its way into use, one kind of step at a time: the verifier decides what
\* is claimed of it; it is published beside writes and checks; and the soundness fuzzer
\* publishes its own.
EXTENDS MCSchemaPublish, SoundnessRun, MCSchemaVerifier

CONSTANTS r1, r2, s1, s2, lapsed, valid, ban

\* The fixture of s1 grants by a tuple that has expired, the one of s2 by one that has
\* not, beside a ban that has.
Fixtures == [of \in {s1, s2} |-> IF of = s1 THEN <<lapsed>> ELSE <<valid, ban>>]
ExpiryKinds == [t \in {lapsed, valid, ban} |-> IF t = valid THEN "valid" ELSE "expired"]

VARIABLE scene

\* The verifier's part of the state, in the other two.
Unverified == schema = << >> /\ rows = << >> /\ file = << >> /\ reports = << >>

PublishingInit == /\ PublishInit
                  /\ SoundnessInit
                  /\ \/ scene = "verify" /\ VerifierInit
                     \/ scene \in {"publish", "fuzz"} /\ Unverified

PublishingNext ==
    \/ scene = "verify" /\ VerifierNext /\ UNCHANGED <<scene, allVars, soundnessVars>>
    \/ scene = "publish" /\ PublishNext /\ UNCHANGED <<scene, soundnessVars, verifierVars>>
    \/ scene = "fuzz" /\ SoundnessNext /\ UNCHANGED <<scene, allVars, verifierVars>>

PublishingSpec == PublishingInit /\ [][PublishingNext]_<<scene, allVars, soundnessVars, verifierVars>>

\* The second run of the fuzzer is in the slot r2, and at most one of the two uses
\* the index.
FirstRunFirst ==
    /\ OneKindOfReader
    /\ starts = 1 => rpc[r2] = "idle"
    /\ mode[r1] = "off" \/ mode[r2] = "off"
=============================================================================
