---------------------------- MODULE MCAuthStack ----------------------------
(* Instances of AuthStack for TLC. *)
EXTENDS AuthStack, TLC

X(kind, mechs, users) == [kind : {kind}, mech : mechs, user : users]
Anyone == CHOOSE u \in Users : TRUE

\* Two users of SCRAM and one-time passwords, so that their exchanges can be mixed; one
\* each of a ticket and a certificate, which end in one step or with their own user.
LoginTraffic ==
    X("setup", {"scram"}, Users) \cup X("setup", {"gssapi"}, Trusted)
        \cup X("setup", {"cert"}, OtpUsers) \cup X("setup", {"none"}, {Anyone})
        \cup X("continue", {"scram", "otp"}, Users) \cup X("continue", {"gssapi"}, Trusted)
        \cup X("call", {"none"}, {Anyone})

RetryTraffic == X("setup", {"scram"}, Users) \cup X("continue", {"scram"}, Users)

MsgSymmetry == Permutations(Msgs)

=============================================================================
