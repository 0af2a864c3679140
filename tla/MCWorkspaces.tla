---------------------------- MODULE MCWorkspaces ----------------------------
(***************************************************************************)
(* Instances of Workspaces for TLC.                                        *)
(***************************************************************************)
EXTENDS Workspaces, TLC

CONSTANTS alice, bob

\* the members routes as router.go mounts them, and as the handlers document them
Mounted == {"membershipId"}
Documented == {"id", "membershipId"}

Common == {"create", "active", "invite", "accept"}
MCMounted == {<<Mounted, Common \cup {"delete", "role", "remove", "close"}>>}
\* owners and members at work, members with closures, schedules with closures
MCSetups == {<<v, Common \cup {"delete", "role", "remove"}>> : v \in {Mounted, Documented}} \cup
            {<<Documented, Common \cup {"delete", "remove", "close"}>>,
             <<Mounted, Common \cup {"close", "schedCreate", "schedDelete"}>>}

MCSymmetry == Permutations(Proc) \cup Permutations(User)
=============================================================================
