---------------------------- MODULE MCControlledRun ----------------------------
(* Two callers; a tool that is allowed, one that is allowed and blocked and  *)
(* one no frame names; a second frame of another actor that blocks nothing.   *)
EXTENDS ControlledRun, TLC

CONSTANTS c1, c2

MCCallers == {c1, c2}
OneCaller == {c1}

MCProposals == [tool : {"crm"}, type : {"write", "external_send", "delete"}]
               \cup [tool : {"mail", "shell"}, type : {"read"}]
FewProposals == [tool : {"crm"}, type : {"write"}]

Strict == [actor |-> "agent", allowed |-> {"crm", "mail"}, blocked |-> {"mail"}]
Loose == [actor |-> "other", allowed |-> {"crm", "mail"}, blocked |-> {}]

OneFrame == {Strict}
TwoFrames == {Strict, Loose}

MCGrants == [actor : {"agent"}, scope : {{"write"}, {"external_send"}}, expires : {1}]
            \cup [actor : {"other"}, scope : {{"write"}}, expires : {Never}]

Symmetry == Permutations(MCCallers)
==============================================================================
